---- MODULE Spec2Model ----
(***************************************************************************)
(* Data-access gateway of jira-mcp-snowflake (src/src/database.py):        *)
(* the query executor with its response cache, the enrichment coordinator  *)
(* with its sub-queries, and the batch dispatcher.                         *)
(*                                                                         *)
(* Python values are modelled as follows.  A string is a sequence of       *)
(* one-character strings where the code looks at characters (issue ids),   *)
(* and a sequence of lexical chunks where it looks only at the leading     *)
(* keyword (SQL statements).  None is the reserved value PyNone.  A row is *)
(* a sequence of column values.  asyncio is cooperative: every action is   *)
(* the code that runs between two await points.                            *)
(***************************************************************************)
EXTENDS Integers, Sequences, FiniteSets, TLC

VARIABLES cfg, cache, nextHandle, call, enr, bat, lnk, pool, tc, settings, fn

vars == <<cfg, cache, nextHandle, call, enr, bat, lnk, pool, tc, settings, fn>>

(***************************************************************************)
(* Bounds of the model.                                                    *)
(***************************************************************************)
MaxParts == 3        \* most partitions a statement's result is split into
MaxHandles == 1      \* statement handles the backend issues in one run
CacheMaxSize == 2    \* CACHE_MAX_SIZE, scaled down so that eviction happens

(***************************************************************************)
(* Python values.                                                          *)
(***************************************************************************)
PyNone == <<"<None>">>
NoToken == "<no token>"          \* None or "": both falsy
NoKey == <<"<no key>">>
NoHandle == "<no handle>"
NoBody == [kind |-> "none", rows |-> <<>>, nparts |-> 0, handle |-> NoHandle]

IsStr(v) == v # PyNone

\* SQL statements as chunk sequences; the last one is a non-string argument.
Whitespace == {" ", "\n"}
Statements == { <<"\n", "select", " ", "1">>, <<"INSERT", " ", "2">>, PyNone }

IdxStr(i) == CASE i = 0 -> "0" [] i = 1 -> "1" [] i = 2 -> "2" [] i = 3 -> "3" [] OTHER -> "4"

\* The backend's data: a partition of a statement's result holds one row,
\* which names the statement and the partition; the first one may be empty.
Row(sql, i) == <<sql[Len(sql)], IdxStr(i)>>
PartRows(sql, i) == IF i = 0 THEN { <<>>, <<Row(sql, i)>> } ELSE { <<Row(sql, i)>> }

Tokens == { NoToken, "T1" }
Calls == { "c1", "c2" }
SlotRank(c) == IF c = "c1" THEN 1 ELSE 2

\* str.upper(), chunk by chunk
UpperChunk(s) == IF s = "select" THEN "SELECT" ELSE IF s = "insert" THEN "INSERT" ELSE s
Upper(s) == [i \in 1..Len(s) |-> UpperChunk(s[i])]

\* str.strip()
RECURSIVE LStrip(_)
LStrip(s) == IF s # <<>> /\ Head(s) \in Whitespace THEN LStrip(Tail(s)) ELSE s
RECURSIVE RStrip(_)
RStrip(s) ==
    IF s # <<>> /\ s[Len(s)] \in Whitespace THEN RStrip(SubSeq(s, 1, Len(s) - 1)) ELSE s
Strip(s) == RStrip(LStrip(s))

StartsWith(s, word) == s # <<>> /\ Head(s) = word

\* sql.strip().upper().startswith('SELECT')
IsSelect(sql) == StartsWith(Upper(Strip(sql)), "SELECT")

(***************************************************************************)
(* get_cache_key: the operation name followed by "name:value" for every    *)
(* parameter that is not None, in ascending name order.  kwargs is a       *)
(* function from parameter names to values.  The ":"-joined string is kept *)
(* as the sequence of its parts.                                           *)
(***************************************************************************)
NameRank(n) ==
    CASE n = "data" -> 1 [] n = "endpoint" -> 2 [] n = "issue_ids" -> 3 [] n = "sql" -> 4

RECURSIVE SortedNames(_)
SortedNames(S) ==
    IF S = {} THEN <<>>
    ELSE LET m == CHOOSE x \in S : \A y \in S : NameRank(x) <= NameRank(y)
         IN <<m>> \o SortedNames(S \ {m})

RECURSIVE KeyParts(_, _)
KeyParts(names, kwargs) ==
    IF names = <<>> THEN <<>>
    ELSE (IF kwargs[Head(names)] # PyNone
          THEN << <<Head(names), kwargs[Head(names)]>> >> ELSE <<>>)
         \o KeyParts(Tail(names), kwargs)

\* the key with a "name:value" part for the None-valued parameters as well
get_cache_key_keeps_none(operation, kwargs) ==
    <<operation>> \o [ i \in 1..Cardinality(DOMAIN kwargs) |->
                         << SortedNames(DOMAIN kwargs)[i],
                            kwargs[SortedNames(DOMAIN kwargs)[i]] >> ]
get_cache_key(operation, kwargs) ==
    <<operation>> \o KeyParts(SortedNames(DOMAIN kwargs), kwargs)

(***************************************************************************)
(* The response cache: a TTLCache(maxsize, ttl) behind ENABLE_CACHING.     *)
(* An entry is [key, rows, body]; rows holds a cached row list or map, body *)
(* a cached response.  The cache holds the entries that have not expired:  *)
(* an entry leaves it when its TTL has passed (action Expire).  When the   *)
(* cache is full the library evicts an entry of its choosing: the victim   *)
(* is left open here.                                                      *)
(***************************************************************************)
get_from_cache(cch, key) ==
    IF ~cfg.caching THEN {}
    ELSE { e \in cch : e.key = key }

Entry(g) == CHOOSE e \in g : TRUE
\* "if cached_result:" in place of "if cached_result is not None:"
FoundTruthy(g) == g # {} /\ Entry(g).rows # <<>>
\* cached_result is not None
Found(g) == g # {}

\* _cache[key] = value without the ENABLE_CACHING test
set_in_cache_unguarded(cch, key, rows, body) ==
    LET new == [key |-> key, rows |-> rows, body |-> body]
        others == { e \in cch : e.key # key }
    IN IF (\E e \in cch : e.key = key) \/ Cardinality(cch) < CacheMaxSize
       THEN { others \cup {new} }
       ELSE { (cch \ {v}) \cup {new} : v \in cch }
\* the caches that can result from _cache[key] = value
set_in_cache(cch, key, rows, body) ==
    IF ~cfg.caching THEN { cch }
    ELSE LET live == cch
             new == [key |-> key, rows |-> rows, body |-> body]
             others == { e \in live : e.key # key }
         IN IF (\E e \in live : e.key = key) \/ Cardinality(live) < CacheMaxSize
            THEN { others \cup {new} }
            ELSE { (live \ {v}) \cup {new} : v \in live }

clear_cache(cch) == IF ~cfg.caching THEN cch ELSE {}

(***************************************************************************)
(* One execute_snowflake_query call.                                       *)
(***************************************************************************)
\* the configured token first, the caller's token only without one
EffectiveTokenConfigured(tok) == IF cfg.token # NoToken THEN cfg.token ELSE tok
\* token = snowflake_token or SNOWFLAKE_TOKEN
EffectiveToken(tok) == IF tok # NoToken THEN tok ELSE cfg.token

HandleStr(h) == CASE h = 1 -> "h1" [] h = 2 -> "h2" [] h = 3 -> "h3" [] OTHER -> "h4"
\* f"statements/{statement_handle}?partition={partition_index}"
partition_endpoint(handle, i) == <<"statements/", handle, "?partition=", IdxStr(i)>>

\* the key make_snowflake_request builds for a GET: data is str(None)
api_request_key(endpoint) ==
    get_cache_key("api_request", [endpoint |-> endpoint, data |-> <<"None">>])

\* one key for every statement
sql_query_key_any(sql) == get_cache_key("sql_query", [sql |-> PyNone])
\* get_cache_key("sql_query", sql=sql)
sql_query_key(sql) == get_cache_key("sql_query", [sql |-> sql])

connector_key(sql) == get_cache_key("sql_query_connector", [sql |-> sql])

SuccessfulResponses == { "data", "resultSet", "no_payload", "connector_ok" }
RowBearingResponses == { "data", "resultSet", "connector_ok" }
Keys(cch) == { e.key : e \in cch }

\* History, read by the properties only.  A finished call vouches for its rows
\* until the cache is cleared or its key leaves the cache.
Vouchers(key) ==
    { c \in DOMAIN call : call[c].pc = "done" /\ call[c].fresh /\ call[c].cache_key = key }
Promised(key) == Vouchers(key) # {}
PromisedRows(key) == call[CHOOSE c \in Vouchers(key) : TRUE].result
Stale(callNext, cchNext, all) ==
    [ c \in DOMAIN callNext |->
        IF callNext[c].fresh
           /\ (all \/ (callNext[c].cache_key \in Keys(cache)
                        /\ callNext[c].cache_key \notin Keys(cchNext)))
        THEN [callNext[c] EXCEPT !.fresh = FALSE]
        ELSE callNext[c] ]

Idle ==
    [ pc |-> "idle", sql |-> PyNone, tok |-> NoToken, use_cache |-> FALSE,
      cache_key |-> NoKey, all_data |-> <<>>, nparts |-> 0, handle |-> NoHandle,
      pidx |-> 0, result |-> <<>>, raised |-> FALSE,
      \* history of the call, read by the properties only
      reqs |-> 0, wire |-> <<>>, post |-> "none", got |-> <<>>, skipped |-> {}, stored |-> FALSE,
      hadEntry |-> FALSE, entryRows |-> <<>>, fresh |-> FALSE,
      promised |-> FALSE, promisedRows |-> <<>> ]

\* return rows.  fresh (history): the rows came from a successful backend
\* response to a call that asked for caching.
Returned(r, rows) ==
    [r EXCEPT !.pc = "done", !.result = rows,
              !.fresh = cfg.caching /\ r.cache_key # NoKey /\ r.post \in SuccessfulResponses]
Raised(r) == [r EXCEPT !.pc = "done", !.raised = TRUE]

\* make_snowflake_request past its cache lookup: the Authorization header it
\* builds, and the limiter it holds while the request is sent
HttpRequest(r, method) ==
    [ method |-> method, bearer |-> EffectiveToken(r.tok), acquired |-> TRUE ]
\* the query handed to the worker thread: no header, and no limiter on the way
DriverQuery(r) == [ method |-> "driver", bearer |-> NoToken, acquired |-> FALSE ]
\* history: the requests the call has sent to the backend
Issue(r, req) == [r EXCEPT !.reqs = @ + 1, !.wire = Append(@, req)]

\* the partition's rows put in front of the rows gathered so far
ExtendFront(all_data, partition_data) == partition_data \o all_data
\* all_data.extend(partition_data)
Extend(all_data, partition_data) == all_data \o partition_data

\* the body of the partition loop once partition i's response is known
Absorb(r, i, response) ==
    IF response.kind = "data"
    THEN [r EXCEPT !.all_data = Extend(@, response.rows),
                   !.got = Append(@, [i |-> i, rows |-> response.rows])]
    ELSE [r EXCEPT !.skipped = @ \cup {i}]

(***************************************************************************)
(* for partition_index in range(1, len(partition_info)): runs from index i *)
(* until a partition has to be requested from the backend (pc = "part") or *)
(* the loop ends (pc = "loop_done").  A partition found in the cache by    *)
(* make_snowflake_request is taken without a request.                      *)
(***************************************************************************)
RECURSIVE FetchPartitions(_, _, _)
FetchPartitions(r, i, cch) ==
    IF i >= r.nparts THEN [r EXCEPT !.pc = "loop_done"]
    ELSE LET g == get_from_cache(cch, api_request_key(partition_endpoint(r.handle, i)))
         IN IF Found(g)
            THEN FetchPartitions(Absorb(r, i, Entry(g).body), i + 1, cch)
            ELSE [Issue(r, HttpRequest(r, "GET")) EXCEPT !.pc = "part", !.pidx = i]

\* After the row set is complete: cache it if asked to, and return it.
Finish(c, r, cch, rows) ==
    IF r.use_cache /\ r.cache_key # NoKey
    THEN \E c2 \in set_in_cache(cch, r.cache_key, rows, NoBody) :
            /\ cache' = c2
            /\ call' = Stale([call EXCEPT ![c] =
                                 [Returned(r, rows) EXCEPT !.stored = cfg.caching]],
                            c2, FALSE)
    ELSE /\ cache' = cch
         /\ call' = Stale([call EXCEPT ![c] = Returned(r, rows)], cch, FALSE)

\* Continue the partition loop of call c from index i.
Continue(c, r, i, cch) ==
    LET r2 == FetchPartitions(r, i, cch)
    IN IF r2.pc = "part"
       THEN /\ cache' = cch
            /\ call' = Stale([call EXCEPT ![c] = r2], cch, FALSE)
       ELSE Finish(c, r2, cch, r2.all_data)

(***************************************************************************)
(* execute_snowflake_query(sql, snowflake_token, use_cache) up to its      *)
(* first await.                                                            *)
(***************************************************************************)
ApiStart(c, r0) ==
    IF r0.use_cache /\ ~IsStr(r0.sql)
    THEN \* sql.strip() outside the try block: AttributeError
         /\ call' = [call EXCEPT ![c] = Raised(r0)]
         /\ UNCHANGED cache
    ELSE LET key == IF r0.use_cache /\ IsSelect(r0.sql) THEN sql_query_key(r0.sql) ELSE NoKey
             g == IF key = NoKey THEN {} ELSE get_from_cache(cache, key)
             r == [r0 EXCEPT !.cache_key = key,
                             !.hadEntry = (key # NoKey /\ g # {}),
                             !.entryRows = IF g # {} THEN Entry(g).rows ELSE <<>>,
                             !.promised = (key # NoKey /\ Promised(key)),
                             !.promisedRows = IF key # NoKey /\ Promised(key)
                                              THEN PromisedRows(key) ELSE <<>>]
         IN /\ UNCHANGED cache
            /\ IF key # NoKey /\ Found(g)
               THEN call' = [call EXCEPT ![c] = Returned(r, Entry(g).rows)]
               ELSE IF ~IsStr(r.sql)
               THEN \* sql[:100] inside the try block: TypeError, caught
                    call' = [call EXCEPT ![c] = Returned(r, <<>>)]
               ELSE IF EffectiveToken(r.tok) = NoToken
               THEN \* make_snowflake_request returns None
                    call' = [call EXCEPT ![c] = Returned([r EXCEPT !.post = "no_token"], <<>>)]
               ELSE call' = [call EXCEPT ![c] =
                                [Issue(r, HttpRequest(r, "POST")) EXCEPT !.pc = "post"]]

ConnectorStart(c, r0) ==
    IF ~cfg.connector_available
    THEN /\ call' = [call EXCEPT ![c] = Returned(r0, <<>>)]
         /\ UNCHANGED cache
    ELSE IF r0.use_cache /\ ~IsStr(r0.sql)
    THEN /\ call' = [call EXCEPT ![c] = Raised(r0)]
         /\ UNCHANGED cache
    ELSE LET key == IF r0.use_cache /\ IsSelect(r0.sql) THEN connector_key(r0.sql) ELSE NoKey
             g == IF key = NoKey THEN {} ELSE get_from_cache(cache, key)
             r == [r0 EXCEPT !.cache_key = key,
                             !.hadEntry = (key # NoKey /\ g # {}),
                             !.entryRows = IF g # {} THEN Entry(g).rows ELSE <<>>,
                             !.promised = (key # NoKey /\ Promised(key)),
                             !.promisedRows = IF key # NoKey /\ Promised(key)
                                              THEN PromisedRows(key) ELSE <<>>]
         IN /\ UNCHANGED cache
            /\ IF key # NoKey /\ Found(g)
               THEN call' = [call EXCEPT ![c] = Returned(r, Entry(g).rows)]
               ELSE call' = [call EXCEPT ![c] = [r EXCEPT !.pc = "conn"]]

\* The slots are interchangeable: a call takes the first free one.
FirstFree(c) == \A d \in Calls : call[d].pc = "idle" => SlotRank(c) <= SlotRank(d)

ExecStart(c, sql, tok, uc) ==
    /\ call[c].pc = "idle"
    /\ FirstFree(c)
    /\    LET r0 == [Idle EXCEPT !.sql = sql, !.tok = tok, !.use_cache = uc]
          IN IF cfg.method = "connector" THEN ConnectorStart(c, r0) ELSE ApiStart(c, r0)
    /\ UNCHANGED <<fn, enr, bat, cfg, settings, lnk, pool, tc, nextHandle>>

(***************************************************************************)
(* The statement submission comes back.  make_snowflake_request returns    *)
(* None for a non-2xx status, a network error and malformed JSON.          *)
(***************************************************************************)
TransportFailures == { "http_error", "network_error", "bad_json" }

\* a failed submission is sent once more before the call gives up
PostFailedRetries(c) ==
    /\ call[c].pc = "post"
    /\ \E f \in TransportFailures :
          call' = [call EXCEPT ![c] =
                      IF @.reqs < 2
                      THEN Issue([@ EXCEPT !.post = f], HttpRequest(@, "POST"))
                      ELSE Returned([@ EXCEPT !.post = f], <<>>)]
    /\ UNCHANGED <<fn, enr, bat, cfg, settings, lnk, pool, tc, cache, nextHandle>>

PostFailed(c) ==
    /\ call[c].pc = "post"
    /\ \E f \in TransportFailures :
          call' = [call EXCEPT ![c] = Returned([@ EXCEPT !.post = f], <<>>)]
    /\ UNCHANGED <<fn, enr, bat, cfg, settings, lnk, pool, tc, cache, nextHandle>>

\* {"data": [...], "resultSetMetaData": {"partitionInfo": [...]}, "statementHandle": ...}
PostData(c) ==
    /\ call[c].pc = "post"
    /\ \E rows \in PartRows(call[c].sql, 0), n \in 1..MaxParts, withHandle \in BOOLEAN :
          \* the handle is read only when there are further partitions
          /\ withHandle <=> (n > 1 /\ nextHandle <= MaxHandles)
          /\ nextHandle' = IF withHandle THEN nextHandle + 1 ELSE nextHandle
          /\ LET h == IF withHandle THEN HandleStr(nextHandle) ELSE NoHandle
                 r == [call[c] EXCEPT !.post = "data", !.all_data = rows, !.nparts = n,
                                      !.handle = h,
                                      !.got = <<[i |-> 0, rows |-> rows]>>]
             IN IF n > 1 /\ h # NoHandle
                THEN Continue(c, r, 1, cache)
                ELSE Finish(c, r, cache, r.all_data)
    /\ UNCHANGED <<fn, enr, bat, cfg, settings, lnk, pool, tc>>

\* the TypeError of len(None) left uncaught
PostDataNullEscapes(c) ==
    /\ call[c].pc = "post"
    /\ call' = [call EXCEPT ![c] = Raised([@ EXCEPT !.post = "data_null"])]
    /\ UNCHANGED <<fn, enr, bat, cfg, settings, lnk, pool, tc, cache, nextHandle>>

\* {"data": null}: len(None) raises TypeError inside the try block
PostDataNull(c) ==
    /\ call[c].pc = "post"
    /\ call' = [call EXCEPT ![c] = Returned([@ EXCEPT !.post = "data_null"], <<>>)]
    /\ UNCHANGED <<fn, enr, bat, cfg, settings, lnk, pool, tc, cache, nextHandle>>

\* {"resultSet": {"data": [...]}}
PostResultSet(c) ==
    /\ call[c].pc = "post"
    /\ \E rows \in PartRows(call[c].sql, 0) :
          LET r == [call[c] EXCEPT !.post = "resultSet", !.nparts = 1,
                                   !.got = <<[i |-> 0, rows |-> rows]>>]
          IN Finish(c, r, cache, rows)
    /\ UNCHANGED <<fn, enr, bat, cfg, settings, lnk, pool, tc, nextHandle>>

\* a JSON body with neither "data" nor "resultSet" (or a resultSet without data)
PostNoPayload(c) ==
    /\ call[c].pc = "post"
    /\ call' = [call EXCEPT ![c] = Returned([@ EXCEPT !.post = "no_payload"], <<>>)]
    /\ UNCHANGED <<fn, enr, bat, cfg, settings, lnk, pool, tc, cache, nextHandle>>

(***************************************************************************)
(* A partition fetch comes back.                                           *)
(***************************************************************************)
\* a failed partition fetch ends the loop
PartFailedAborts(c) ==
    /\ call[c].pc = "part"
    /\ LET r == call[c]
       IN Finish(c, [r EXCEPT !.skipped = @ \cup {r.pidx}], cache, r.all_data)
    /\ UNCHANGED <<fn, enr, bat, cfg, settings, lnk, pool, tc, nextHandle>>

\* make_snowflake_request returned None: the partition is skipped
PartFailed(c) ==
    /\ call[c].pc = "part"
    /\ LET r == call[c]
       IN Continue(c, [r EXCEPT !.skipped = @ \cup {r.pidx}], r.pidx + 1, cache)
    /\ UNCHANGED <<fn, enr, bat, cfg, settings, lnk, pool, tc, nextHandle>>

\* a JSON body: make_snowflake_request caches it (a GET), then the loop goes on
PartBody(c) ==
    /\ call[c].pc = "part"
    /\ \E kind \in {"data", "data_null", "no_payload"},
          rows \in PartRows(call[c].sql, call[c].pidx) :
          /\ kind # "data" => rows = <<>>
          /\ LET r == call[c]
                 body == [kind |-> kind, rows |-> rows, nparts |-> 0, handle |-> NoHandle]
                 key == api_request_key(partition_endpoint(r.handle, r.pidx))
             IN \E c1 \in set_in_cache(cache, key, <<>>, body) :
                   Continue(c, Absorb(r, r.pidx, body), r.pidx + 1, c1)
    /\ UNCHANGED <<fn, enr, bat, cfg, settings, lnk, pool, tc, nextHandle>>

(***************************************************************************)
(* The native driver's connection settings (SNOWFLAKE_ACCOUNT,             *)
(* SNOWFLAKE_AUTHENTICATOR, SNOWFLAKE_USER, ...) and                       *)
(* SnowflakeConnectorPool._build_connection_params.                        *)
(***************************************************************************)
Unset == "<unset>"               \* None or "": both falsy
Authenticators ==
    { "snowflake", "snowflake_jwt", "SNOWFLAKE_JWT", "oauth_client_credentials",
      "oauth", "externalbrowser" }
ConnSettings ==
    [ account : {Unset, "acct"}, authenticator : Authenticators,
      user : {Unset, "user"}, password : {Unset, "pw"},
      private_key_file : {Unset, "key.p8"},
      oauth_client_id : {Unset, "id"}, oauth_client_secret : {Unset, "secret"} ]
\* password authentication, complete
DefaultSettings ==
    [ account |-> "acct", authenticator |-> "snowflake", user |-> "user",
      password |-> "pw", private_key_file |-> Unset,
      oauth_client_id |-> Unset, oauth_client_secret |-> Unset ]

\* SNOWFLAKE_AUTHENTICATOR.lower()
AuthLower(a) == IF a = "SNOWFLAKE_JWT" THEN "snowflake_jwt" ELSE a

NoParams == <<>>
ParamsOk(p) == [ raises |-> "none", conn_params |-> p ]
ParamsRaise(x) == [ raises |-> x, conn_params |-> NoParams ]

build_connection_params(st) ==
    IF ~cfg.connector_available THEN ParamsRaise("ImportError")
    ELSE IF st.account = Unset THEN ParamsRaise("ValueError")
    ELSE CASE AuthLower(st.authenticator) = "snowflake_jwt" ->
                IF st.private_key_file # Unset
                THEN ParamsOk([ account |-> st.account, authenticator |-> "SNOWFLAKE_JWT",
                                user |-> st.user,
                                private_key_file |-> st.private_key_file ])
                ELSE ParamsRaise("ValueError")
           [] AuthLower(st.authenticator) = "oauth_client_credentials" ->
                IF st.oauth_client_id # Unset /\ st.oauth_client_secret # Unset
                THEN ParamsOk([ account |-> st.account,
                                authenticator |-> "OAUTH_CLIENT_CREDENTIALS",
                                oauth_client_id |-> st.oauth_client_id,
                                oauth_client_secret |-> st.oauth_client_secret ])
                ELSE ParamsRaise("ValueError")
           [] AuthLower(st.authenticator) = "oauth" ->
                IF cfg.token # NoToken
                THEN ParamsOk([ account |-> st.account, authenticator |-> "OAUTH",
                                token |-> cfg.token ])
                ELSE ParamsRaise("ValueError")
           [] OTHER ->
                IF st.user = Unset \/ st.password = Unset
                THEN ParamsRaise("ValueError")
                ELSE ParamsOk([ account |-> st.account, user |-> st.user,
                                password |-> st.password ])

(***************************************************************************)
(* The native-driver query, run on the worker pool, comes back.            *)
(***************************************************************************)
ConnOk(c) ==
    /\ call[c].pc = "conn"
    /\ IsStr(call[c].sql)
    /\ build_connection_params(settings).raises = "none"
    /\ \E rows \in PartRows(call[c].sql, 0) :
          LET r == [Issue(call[c], DriverQuery(call[c])) EXCEPT
                       !.post = "connector_ok", !.nparts = 1,
                       !.got = <<[i |-> 0, rows |-> rows]>>]
          IN Finish(c, r, cache, rows)
    /\ UNCHANGED <<fn, enr, bat, cfg, settings, lnk, pool, tc, nextHandle>>

\* get_connection raises what _build_connection_params raised; the worker
\* re-raises it, and execute_snowflake_query_connector returns [] for it
ConnConfigError(c) ==
    /\ call[c].pc = "conn"
    /\ build_connection_params(settings).raises # "none"
    /\ call' = [call EXCEPT ![c] = Returned([@ EXCEPT !.post = "config_error"], <<>>)]
    /\ UNCHANGED <<fn, enr, bat, cfg, settings, lnk, pool, tc, cache, nextHandle>>

\* connect() or cursor.execute() raises
ConnRaised(c) ==
    /\ call[c].pc = "conn"
    /\ build_connection_params(settings).raises = "none"
    /\ call' = [call EXCEPT ![c] =
                   Returned([Issue(@, DriverQuery(@)) EXCEPT !.post = "connector_error"], <<>>)]
    /\ UNCHANGED <<fn, enr, bat, cfg, settings, lnk, pool, tc, cache, nextHandle>>

\* the caller takes the result; the slot is free for the next call
ExecReturn(c) ==
    /\ call[c].pc = "done"
    /\ call' = [call EXCEPT ![c] = Idle]
    /\ UNCHANGED <<fn, enr, bat, cfg, settings, lnk, pool, tc, cache, nextHandle>>

\* the TTL of an entry has passed
Expire ==
    /\ \E e \in cache : cache' = cache \ {e}
    /\ call' = Stale(call, cache', FALSE)
    /\ UNCHANGED <<fn, enr, bat, cfg, settings, lnk, pool, tc, nextHandle>>

ClearCache ==
    /\ cache' = clear_cache(cache)
    /\ call' = Stale(call, cache', TRUE)
    /\ UNCHANGED <<fn, enr, bat, cfg, settings, lnk, pool, tc, nextHandle>>

(***************************************************************************)
(* The enrichment coordinator's and the batch dispatcher's locals, at rest. *)
(***************************************************************************)
EmptyMap == <<>>
BranchNames == { "labels", "comments", "links" }

IdleSub ==
    [ pc |-> "idle", cache_key |-> NoKey, sanitized_ids |-> <<>>, result |-> EmptyMap,
      raised |-> FALSE,
      \* history of the sub-query, read by the properties only
      args |-> <<>>, in_clause |-> <<>>, queries |-> 0, hit |-> FALSE ]

IdleEnr ==
    [ pc |-> "idle", issue_ids |-> <<>>, tok |-> NoToken, use_cache |-> FALSE,
      result |-> <<>>, sub |-> [b \in BranchNames |-> IdleSub], round |-> 0 ]

IdleBat ==
    [ pc |-> "idle", queries |-> <<>>, batch_size |-> 1, use_cache |-> FALSE,
      i |-> 0, all_results |-> <<>>, finished |-> <<>>,
      \* history of the call, read by the properties only
      started |-> <<>>, order |-> <<>>, outcome |-> <<>> ]

\* _process_links_rows before it is called: no rows, an empty links_data
IdleLnk == [ pc |-> "idle", rows |-> <<>>, sanitized_ids |-> <<>>, links_data |-> <<>> ]

\* _connector_pool = None, and no worker thread inside
\* _execute_connector_query_sync: each worker's place in it (pc), the pool
\* instance get_connector_pool returned to it (inst), the connection
\* get_connection returned (conn) or the exception it raised (raised);
\* history of its get_connection: the connection held on entry (held_before),
\* whether that one was open (was_open), whether connect() was called (opened)
Workers == { "w1", "w2" }
NoInst == 0
NoConn == 0
IdleWorker ==
    [ pc |-> "idle", inst |-> NoInst, conn |-> NoConn, raised |-> "none",
      held_before |-> NoConn, was_open |-> FALSE, opened |-> FALSE ]
\* history of cleanup_resources' call of SnowflakeConnectorPool.close: the
\* connection held on entry (prev), the one held on return (left), and
\* whether prev was closed on return
NoClose == [ calls |-> 0, prev |-> NoConn, left |-> NoConn, prev_closed |-> FALSE ]
IdleConnectorPool ==
    [ connector_pool |-> NoInst,           \* the global _connector_pool
      made |-> 0,                          \* SnowflakeConnectorPool() instances so far
      held |-> [ i \in 1..Cardinality(Workers) |-> NoConn ],   \* instance._connection
      closed |-> <<>>,                     \* connection.is_closed(), by connection
      th |-> [ w \in Workers |-> IdleWorker ],
      cl |-> NoClose ]

\* _connection_pool = None, and no coroutine inside get_client or close: each
\* coroutine's place (pc) and the client get_client returned to it (client);
\* history of its get_client: the client held on entry (before), whether that
\* one was open (was_open), whether a client was constructed (constructed),
\* whether the returned client was open on return (ret_open)
Coroutines == { "r1", "r2" }
NoClient == 0
NoTask == "<no task>"
IdleCoroutine ==
    [ pc |-> "idle", client |-> NoClient, before |-> NoClient, was_open |-> FALSE,
      constructed |-> FALSE, ret_open |-> FALSE ]
IdleConnectionPool ==
    [ connection_pool |-> NoInst,          \* the global _connection_pool
      made |-> 0,                          \* SnowflakeConnectionPool() instances so far
      client |-> NoClient,                 \* instance._client
      closed |-> <<>>,                     \* client.is_closed, by client
      lock |-> NoTask,                     \* holder of instance._lock
      co |-> [ t \in Coroutines |-> IdleCoroutine ],
      closer |-> "idle" ]                  \* cleanup_resources' place in close()

\* the pools and the timed cache before first use
IdlePool == [ api |-> IdleConnectionPool, drv |-> IdleConnectorPool ]
\* _cache = TTLCache(...) as constructed: empty, at time 0.  History, read by
\* the properties only: the time of the latest set_in_cache of each key
\* (set_at), the last cache operation if no time has passed since (last),
\* and what a get_from_cache that has just returned saw (seen): its key,
\* what it returned, the time since the latest set_in_cache of the key (-1:
\* never set), and the operation before it
TcNone == "<None>"
NoOp == [ op |-> "none", key |-> "", value |-> TcNone ]
NoSeen == [ key |-> "", returned |-> TcNone, age |-> -1, prev |-> NoOp ]
IdleTc == [ now |-> 0, items |-> {}, set_at |-> <<>>, last |-> NoOp, seen |-> NoSeen ]
\* no pure function applied yet: the function applied last (name), its
\* arguments and what it returned
IdleFn == [ name |-> "none", args |-> <<>>, result |-> <<>> ]

Configs ==
    [ caching : BOOLEAN, token : {NoToken, "T0"}, method : {"api", "connector"},
      connector_available : BOOLEAN ]

Init ==
    /\ cfg \in { k \in Configs : k.method = "api" => k.connector_available }
    /\ cache = {}
    /\ nextHandle = 1
    /\ call = [c \in Calls |-> Idle]
    /\ enr = IdleEnr
    /\ bat = IdleBat
    /\ lnk = IdleLnk
    /\ pool = IdlePool
    /\ tc = IdleTc
    /\ fn = IdleFn
    /\ settings = DefaultSettings

Next ==
    \/ \E c \in Calls, sql \in Statements, uc \in BOOLEAN : ExecStart(c, sql, NoToken, uc)
    \/ \E c \in Calls : PostFailed(c)
    \/ \E c \in Calls : PostData(c)
    \/ \E c \in Calls : PostDataNull(c)
    \/ \E c \in Calls : PostResultSet(c)
    \/ \E c \in Calls : PostNoPayload(c)
    \/ \E c \in Calls : PartFailed(c)
    \/ \E c \in Calls : PartBody(c)
    \/ \E c \in Calls : ConnOk(c)
    \/ \E c \in Calls : ConnRaised(c)
    \/ \E c \in Calls : ExecReturn(c)
    \/ Expire
    \/ ClearCache

Spec == Init /\ [][Next]_vars

(***************************************************************************)
(* Properties of the query executor.                                       *)
(***************************************************************************)
RECURSIVE Flatten(_)
Flatten(g) == IF g = <<>> THEN <<>> ELSE Head(g).rows \o Flatten(Tail(g))
Increasing(g) == \A i \in 1..(Len(g) - 1) : g[i].i < g[i + 1].i
Fetched(r) == { r.got[i].i : i \in 1..Len(r.got) }
Resolved(r) == Fetched(r) \cup r.skipped
Paginated(r) == r.post = "data" /\ r.nparts > 1 /\ r.handle # NoHandle

FailureOutcomes == TransportFailures \cup { "data_null", "no_payload" }

\* C1: execute_snowflake_query never raises to its caller, and for every
\* statement (a string) whose submission ends in a non-2xx status, a network
\* error, malformed JSON, a null data field or a body with neither data nor
\* resultSet, it returns the empty row list.
C1_NeverRaisesEmptyOnFailure ==
    \A c \in Calls :
        (call[c].pc = "done" /\ IsStr(call[c].sql)) =>
            /\ ~call[c].raised
            /\ call[c].post \in FailureOutcomes => call[c].result = <<>>

C1_Witness ==
    \E c \in Calls :
        /\ call[c].pc = "done" /\ IsStr(call[c].sql)
        /\ call[c].post = "data_null" /\ call[c].result = <<>> /\ ~call[c].raised

\* C2: for a submission response that lists n > 1 partitions and carries a
\* statement handle, partitions 1..n-1 are requested one at a time in
\* increasing index order (partition i is requested only when every partition
\* below i has been answered), and the rows returned are those of partition 0
\* followed by those of each fetched partition in index order.
C2_PartitionsInOrder ==
    \A c \in Calls :
        LET r == call[c]
        IN r.post = "data" =>
              /\ r.got[1].i = 0
              /\ Increasing(r.got)
              /\ r.all_data = Flatten(r.got)
              /\ r.pc = "part" => /\ Paginated(r)
                                  /\ Resolved(r) = 0..(r.pidx - 1)
              /\ r.pc = "done" => /\ r.result = Flatten(r.got)
                                  /\ Paginated(r) => Resolved(r) = 0..(r.nparts - 1)

C2_Witness ==
    \E c \in Calls :
        LET r == call[c]
        IN /\ r.pc = "done" /\ r.post = "data" /\ r.nparts = 3
           /\ r.result = <<Row(r.sql, 0), Row(r.sql, 1), Row(r.sql, 2)>>

\* C3: when the fetch of a partition i >= 1 fails (the request fails, or the
\* response has no usable data field), that partition is skipped, every later
\* partition is still requested, and the call returns, without raising, the
\* rows of partition 0 and of the fetched partitions in index order.
C3_FailedPartitionSkipped ==
    \A c \in Calls :
        LET r == call[c]
        IN (r.pc = "done" /\ Paginated(r) /\ r.skipped # {}) =>
              /\ ~r.raised
              /\ Fetched(r) \cap r.skipped = {}
              /\ Resolved(r) = 0..(r.nparts - 1)
              /\ r.reqs = r.nparts
              /\ Increasing(r.got)
              /\ r.result = Flatten(r.got)

C3_Witness ==
    \E c \in Calls :
        LET r == call[c]
        IN /\ r.pc = "done" /\ r.post = "data" /\ r.nparts = 3 /\ r.skipped = {1}
           /\ r.result = <<Row(r.sql, 0), Row(r.sql, 2)>>

\* C4 as stated: once a call with caching on a SELECT has returned rows from a
\* successful backend response, a later call for the same statement, made
\* before the entry expires, is evicted or the cache is cleared,
\* returns the same rows and sends nothing to the backend.
C4_LaterCallServedFromCache ==
    \A c \in Calls :
        call[c].promised =>
            /\ call[c].reqs = 0
            /\ call[c].pc = "done" /\ call[c].result = call[c].promisedRows

\* C4 as amended: a call with caching that finds a live entry for its SELECT
\* statement returns the entry's rows (an empty list included) and sends
\* nothing to the backend; and a call with caching on a SELECT that returns
\* the row list carried by a response (data or resultSet.data, or the native
\* driver's rows) has stored that list.
C4_CacheHitServesEntry ==
    \A c \in Calls :
        LET r == call[c]
        IN /\ r.hadEntry =>
                 /\ r.pc = "done" /\ ~r.raised
                 /\ r.result = r.entryRows
                 /\ r.reqs = 0
           /\ (r.pc = "done" /\ cfg.caching /\ r.use_cache /\ IsStr(r.sql)
                  /\ IsSelect(r.sql) /\ r.post \in RowBearingResponses) => r.stored

C4_Witness ==
    \E c \in Calls :
        /\ call[c].pc = "done" /\ call[c].hadEntry /\ call[c].reqs = 0
        /\ call[c].result = <<>> /\ call[c].promised

\* C5: a row set stored in the response cache for a statement holds the rows
\* of every partition of the statement's result, none missing.
C5_StoredRowSetComplete ==
    \A c \in Calls :
        LET r == call[c]
        IN (r.stored /\ r.post = "data") =>
              /\ r.skipped = {}
              /\ r.nparts > 1 => Fetched(r) = 0..(r.nparts - 1)

(***************************************************************************)
(* Issue ids.  An id is a string, kept as the sequence of its characters,  *)
(* or a value that is not a string (PyNone).                               *)
(***************************************************************************)
MaxRounds == 2       \* enrichment calls made one after the other in one run

Digits == { "1", "2" }
\* the code points that order the characters
CharRank(ch) == CASE ch = "," -> 44 [] ch = "1" -> 49 [] ch = "2" -> 50 [] ch = "a" -> 97

\* the id lists passed to the enrichment coordinator
IdLists ==
    { <<>>, << <<"1">> >>, << <<"a">> >>, << <<"a">>, <<"1">> >>, << <<"1", ",", "a">> >>,
      << PyNone >> }

\* str.isdigit()
isdigit(s) == s # <<>> /\ \A i \in 1..Len(s) : s[i] \in Digits
\* isinstance(issue_id, (str, int)) and str(issue_id).isdigit()
IsNumericId(v) == IsStr(v) /\ isdigit(v)

\* a < b on strings
RECURSIVE StrLess(_, _)
StrLess(a, b) ==
    IF b = <<>> THEN FALSE
    ELSE IF a = <<>> THEN TRUE
    ELSE IF Head(a) = Head(b) THEN StrLess(Tail(a), Tail(b))
    ELSE CharRank(Head(a)) < CharRank(Head(b))

RECURSIVE Insert(_, _)
Insert(x, s) ==
    IF s = <<>> THEN <<x>>
    ELSE IF StrLess(x, Head(s)) THEN <<x>> \o s
    ELSE <<Head(s)>> \o Insert(x, Tail(s))

\* sorted(issue_ids)
RECURSIVE sorted(_)
sorted(s) == IF s = <<>> THEN <<>> ELSE Insert(s[Len(s)], sorted(SubSeq(s, 1, Len(s) - 1)))

\* sep.join(parts)
RECURSIVE Join(_, _)
Join(sep, parts) ==
    IF parts = <<>> THEN <<>>
    ELSE IF Len(parts) = 1 THEN parts[1]
    ELSE parts[1] \o <<sep>> \o Join(sep, Tail(parts))

\* ",".join(sorted(issue_ids)) raises TypeError when an element is not a string
TypeErrorInKey(ids) == \E i \in 1..Len(ids) : ~IsStr(ids[i])

\* the key built from the ids in the order given
issue_ids_key_unsorted(operation, ids) ==
    get_cache_key(operation, [issue_ids |-> Join(",", ids)])
\* get_cache_key(operation, issue_ids=",".join(sorted(issue_ids)))
issue_ids_key(operation, ids) ==
    get_cache_key(operation, [issue_ids |-> Join(",", sorted(ids))])

\* the statement of a sub-query: its table and the ids of its IN (...) clause
EnrichSql(operation, sanitized_ids) == <<"\n", "SELECT", " ", operation, "IN">> \o sanitized_ids
InClause(sql) == SubSeq(sql, 6, Len(sql))

(***************************************************************************)
(* Rows to maps.  The backend's row <<a, b>> stands for a row whose issue  *)
(* column (ISSUE, ISSUEID, SOURCE) is a and whose next column (LABEL, ID,  *)
(* DESTINATION) is b.  A map of lists is the sequence of its <<key, value>>*)
(* associations in the order the code appends them; a label, a comment and *)
(* a link are kept as one string (the label, the comment's id, the link's  *)
(* relationship).                                                          *)
(***************************************************************************)
InSeq(x, s) == \E i \in 1..Len(s) : s[i] = x
\* if k not in m: m[k] = []; m[k].append(v)
AddTo(m, k, v) == Append(m, <<k, v>>)

ProcessRow(operation, row, sanitized_ids, m) ==
    CASE operation = "labels" -> AddTo(m, row[1], row[2])
      [] operation = "comments" -> AddTo(m, row[1], row[2])
      [] operation = "links" ->
            LET source_id == row[1]
                destination_id == <<row[2]>>
                m1 == IF InSeq(source_id, sanitized_ids)
                      THEN AddTo(m, source_id, "outward")
                      ELSE m
            IN IF InSeq(destination_id, sanitized_ids)
               THEN AddTo(m1, destination_id,
                          IF destination_id = source_id THEN "outward" ELSE "inward")
               ELSE m1

RECURSIVE process_rows(_, _, _, _)
process_rows(operation, rows, sanitized_ids, m) ==
    IF rows = <<>> THEN m
    ELSE process_rows(operation, Tail(rows), sanitized_ids,
                      ProcessRow(operation, Head(rows), sanitized_ids, m))

(***************************************************************************)
(* The enrichment sub-queries get_issue_labels, get_issue_comments and     *)
(* get_issue_links, and get_issue_enrichment_data_concurrent, which        *)
(* gathers them.  Sub-query b runs its statement on executor slot b.       *)
(***************************************************************************)
Branches == <<"labels", "comments", "links">>
\* what gather(return_exceptions=True) puts in the place of a task that raised
ExcValue == << <<PyNone, "<exception>">> >>

SubDone(s, m) == [s EXCEPT !.pc = "done", !.result = m]
SubRaised(s) == [s EXCEPT !.pc = "done", !.raised = TRUE, !.result = ExcValue]

EnrichStart(ids, tok, uc) ==
    /\ enr.pc = "idle"
    /\ enr.round < MaxRounds
    /\ enr' = IF ids = <<>>
              THEN [enr EXCEPT !.pc = "done", !.issue_ids = ids, !.tok = tok,
                               !.use_cache = uc,
                               !.result = <<EmptyMap, EmptyMap, EmptyMap>>]
              ELSE [enr EXCEPT !.pc = "gather", !.issue_ids = ids, !.tok = tok,
                               !.use_cache = uc,
                               !.sub = [b \in BranchNames |->
                                          [IdleSub EXCEPT !.pc = "created",
                                                          !.args = <<ids, tok, uc>>]]]
    /\ UNCHANGED <<fn, cfg, settings, lnk, pool, tc, cache, nextHandle, call, bat>>

\* the event loop gives the gathered tasks their first step in the order of
\* their creation
BranchRank(b) == CASE b = "labels" -> 1 [] b = "comments" -> 2 [] b = "links" -> 3
\* a sub-query awaited on its own: it starts when the ones before it are over
IsNextToStartInTurn(b) ==
    /\ enr.pc = "gather"
    /\ enr.sub[b].pc = "created"
    /\ \A d \in BranchNames : BranchRank(d) < BranchRank(b) => enr.sub[d].pc = "done"
IsNextToStart(b) ==
    /\ enr.pc = "gather"
    /\ enr.sub[b].pc = "created"
    /\ \A d \in BranchNames : BranchRank(d) < BranchRank(b) => enr.sub[d].pc # "created"

\* a sub-query from its first line to its first await, or to its return
SubStart(b) ==
    /\ IsNextToStart(b)
    /\ LET s == enr.sub[b]
           ids == s.args[1]
           uc == s.args[3]
           Ends(x) == /\ enr' = [enr EXCEPT !.sub[b] = x]
                      /\ UNCHANGED <<fn, call, cache>>
       IN IF ids = <<>> THEN Ends(SubDone(s, EmptyMap))
          ELSE IF TypeErrorInKey(ids) THEN Ends(SubRaised(s))
          ELSE LET key == issue_ids_key(b, ids)
                   g == IF uc THEN get_from_cache(cache, key) ELSE {}
                   sanitized_ids == SelectSeq(ids, IsNumericId)
                   s1 == [s EXCEPT !.cache_key = key]
               IN IF Found(g) THEN Ends([SubDone(s1, Entry(g).rows) EXCEPT !.hit = TRUE])
                  ELSE IF sanitized_ids = <<>> THEN Ends(SubDone(s1, EmptyMap))
                  ELSE LET sql == EnrichSql(b, sanitized_ids)
                           r0 == [Idle EXCEPT !.sql = sql, !.use_cache = uc,
                                              !.tok = IF cfg.method = "connector"
                                                      THEN NoToken ELSE s.args[2]]
                       IN /\ enr' = [enr EXCEPT !.sub[b] =
                                        [s1 EXCEPT !.pc = "query",
                                                   !.sanitized_ids = sanitized_ids,
                                                   !.in_clause = InClause(sql),
                                                   !.queries = @ + 1]]
                          /\ IF cfg.method = "connector"
                             THEN ConnectorStart(b, r0) ELSE ApiStart(b, r0)
    /\ UNCHANGED <<fn, cfg, settings, lnk, pool, tc, nextHandle, bat>>

\* an exception escapes sub-query b: its own lines before the try block, or
\* the function that stands in for it (the sub-queries are module attributes)
SubFault(b) ==
    /\ IsNextToStart(b)
    /\ enr' = [enr EXCEPT !.sub[b] = SubRaised(@)]
    /\ UNCHANGED <<fn, cfg, settings, lnk, pool, tc, cache, nextHandle, call, bat>>

\* execute_snowflake_query has returned: build the map, cache it, return it
SubResume(b) ==
    /\ enr.pc = "gather"
    /\ enr.sub[b].pc = "query"
    /\ call[b].pc = "done"
    /\ LET s == enr.sub[b]
       IN IF call[b].raised
          THEN \* caught by "except Exception"
               /\ enr' = [enr EXCEPT !.sub[b] = SubDone(s, EmptyMap)]
               /\ call' = [call EXCEPT ![b] = Idle]
               /\ UNCHANGED cache
          ELSE LET data == process_rows(b, call[b].result, s.sanitized_ids, EmptyMap)
               IN /\ enr' = [enr EXCEPT !.sub[b] = SubDone(s, data)]
                  /\ IF s.args[3]
                     THEN \E c2 \in set_in_cache(cache, s.cache_key, data, NoBody) :
                             /\ cache' = c2
                             /\ call' = Stale([call EXCEPT ![b] = Idle], c2, FALSE)
                     ELSE /\ call' = [call EXCEPT ![b] = Idle]
                          /\ UNCHANGED cache
    /\ UNCHANGED <<fn, cfg, settings, lnk, pool, tc, nextHandle, bat>>

\* the place of a sub-query that raised is left holding the exception
AbsorbedLeaks(s) == s.result
\* if isinstance(x, Exception): x = {}
Absorbed(s) == IF s.raised THEN EmptyMap ELSE s.result

EnrichCollect ==
    /\ enr.pc = "gather"
    /\ \A b \in BranchNames : enr.sub[b].pc = "done"
    /\ enr' = [enr EXCEPT !.pc = "done",
                          !.result = [i \in 1..Len(Branches) |-> Absorbed(enr.sub[Branches[i]])]]
    /\ UNCHANGED <<fn, cfg, settings, lnk, pool, tc, cache, nextHandle, call, bat>>

\* the caller takes the tuple
EnrichReturn ==
    /\ enr.pc = "done"
    /\ enr' = [IdleEnr EXCEPT !.round = enr.round + 1]
    /\ UNCHANGED <<fn, cfg, settings, lnk, pool, tc, cache, nextHandle, call, bat>>

InitEnrich ==
    /\ cfg \in { k \in Configs : k.token # NoToken /\ k.connector_available }
    /\ cache = {}
    /\ nextHandle = 1
    /\ call = [b \in BranchNames |-> Idle]
    /\ enr = IdleEnr
    /\ bat = IdleBat
    /\ lnk = IdleLnk
    /\ pool = IdlePool
    /\ tc = IdleTc
    /\ fn = IdleFn
    /\ settings = DefaultSettings

NextEnrich ==
    \/ \E ids \in IdLists, uc \in BOOLEAN : EnrichStart(ids, "T1", uc)
    \/ \E b \in BranchNames : SubStart(b)
    \/ \E b \in BranchNames : SubResume(b)
    \/ EnrichCollect
    \/ EnrichReturn
    \/ \E b \in BranchNames : PostFailed(b)
    \/ \E b \in BranchNames : PostResultSet(b)
    \/ \E b \in BranchNames : ConnOk(b)
    \/ \E b \in BranchNames : ConnRaised(b)

SpecEnrich == InitEnrich /\ [][NextEnrich]_vars

\* the coordinator over sub-queries that may raise at will
NextEnrichPatched ==
    \/ NextEnrich
    \/ \E b \in BranchNames : SubFault(b)

SpecEnrichPatched == InitEnrich /\ [][NextEnrichPatched]_vars

(***************************************************************************)
(* Properties of the enrichment coordinator and its sub-queries.           *)
(***************************************************************************)
HasNumericId(ids) == \E i \in 1..Len(ids) : IsNumericId(ids[i])

\* C6: whichever of the gathered sub-queries raise, the coordinator returns
\* (it does not raise) a tuple that holds an empty map in exactly the places
\* of the sub-queries that raised and, in every other place, the map that
\* place's sub-query returned, unmodified.
C6_FailureIsolation ==
    (enr.pc = "done" /\ enr.issue_ids # <<>>) =>
        /\ Len(enr.result) = Len(Branches)
        /\ \A i \in 1..Len(Branches) :
              LET s == enr.sub[Branches[i]]
              IN /\ s.pc = "done"
                 /\ s.raised => enr.result[i] = EmptyMap
                 /\ ~s.raised => enr.result[i] = s.result

C6_Witness ==
    /\ enr.pc = "done"
    /\ enr.sub["labels"].raised /\ enr.result[1] = EmptyMap
    /\ ~enr.sub["comments"].raised /\ enr.result[2] # EmptyMap
    /\ ~enr.sub["links"].raised /\ enr.result[3] # EmptyMap

\* C7: the coordinator runs four sub-queries (labels, comments, links, status
\* changes), each once with the ids, token and cache flag it was given, and
\* returns four maps in that order; for an empty id list it returns four empty
\* maps and runs no sub-query.
C7_FourSubQueries ==
    enr.pc = "done" =>
        /\ Len(enr.result) = 4
        /\ enr.issue_ids # <<>> =>
              { b \in DOMAIN enr.sub :
                  enr.sub[b].args = <<enr.issue_ids, enr.tok, enr.use_cache>> }
                = { "labels", "comments", "links", "status_changes" }
        /\ enr.issue_ids = <<>> =>
              /\ \A i \in 1..Len(enr.result) : enr.result[i] = EmptyMap
              /\ \A b \in DOMAIN enr.sub : enr.sub[b].pc = "idle"

\* C10: every id in the IN (...) clause of a query a sub-query issues is an
\* element of its input list made of digits only; and a sub-query whose input
\* list has no purely numeric id returns an empty map and issues no query.
C10_OnlyNumericIdsQueried ==
    \A b \in BranchNames :
        LET s == enr.sub[b]
        IN (s.pc \in {"query", "done"} /\ ~s.raised) =>
              /\ \A i \in 1..Len(s.in_clause) :
                    InSeq(s.in_clause[i], s.args[1]) /\ isdigit(s.in_clause[i])
              /\ (s.pc = "done" /\ ~HasNumericId(s.args[1])) =>
                    (s.result = EmptyMap /\ s.queries = 0)

(***************************************************************************)
(* execute_queries_in_batches.  The queries of a batch run on executor     *)
(* slots 1..batch_size: slot j runs the j-th query of the batch.           *)
(***************************************************************************)
MaxQueries == 3      \* longest query list passed to the batch dispatcher
MaxBatchSize == 2    \* largest batch_size passed to the batch dispatcher

BatchSlots == 1..MaxBatchSize
QueryLists == UNION { [1..k -> Statements] : k \in 0..MaxQueries }
NoOutcome == [known |-> FALSE, raised |-> FALSE, result |-> <<>>]

\* len(queries[i:i + batch_size])
BatchLen(b, i) ==
    IF Len(b.queries) - i < b.batch_size THEN Len(b.queries) - i ELSE b.batch_size

\* tasks = [execute_snowflake_query(sql, snowflake_token, use_cache) for sql in batch]
Tasks(b, i) ==
    [ j \in BatchSlots |->
        IF j <= BatchLen(b, i)
        THEN [Idle EXCEPT !.pc = "created", !.sql = b.queries[i + j],
                          !.use_cache = b.use_cache]
        ELSE Idle ]

BatchStart(queries, batch_size, uc) ==
    /\ bat.pc = "idle"
    /\ LET b == [bat EXCEPT !.queries = queries, !.batch_size = batch_size,
                            !.use_cache = uc,
                            !.outcome = [k \in 1..Len(queries) |-> NoOutcome]]
       IN IF queries = <<>>
          THEN /\ bat' = [b EXCEPT !.pc = "done"]
               /\ UNCHANGED call
          ELSE /\ bat' = [b EXCEPT !.pc = "gather"]
               /\ call' = Tasks(b, 0)
    /\ UNCHANGED <<fn, cfg, settings, lnk, pool, tc, cache, nextHandle, enr>>

\* the first step of a gathered task: the event loop runs the tasks of a
\* batch in the order of their creation
TaskStart(j) ==
    /\ bat.pc = "gather"
    /\ call[j].pc = "created"
    /\ \A d \in BatchSlots : d < j => call[d].pc # "created"
    /\ bat' = [bat EXCEPT !.started = Append(@, bat.i + j)]
    /\ LET r0 == [call[j] EXCEPT !.pc = "idle"]
       IN IF cfg.method = "connector" THEN ConnectorStart(j, r0) ELSE ApiStart(j, r0)
    /\ UNCHANGED <<fn, cfg, settings, lnk, pool, tc, nextHandle, enr>>

\* gather is told that task j has finished
TaskDone(j) ==
    /\ bat.pc = "gather"
    /\ call[j].pc = "done"
    /\ ~InSeq(j, bat.finished)
    /\ bat' = [bat EXCEPT !.finished = Append(@, j),
                          !.order = Append(@, bat.i + j),
                          !.outcome[bat.i + j] =
                              [known |-> TRUE, raised |-> call[j].raised,
                               result |-> call[j].result]]
    /\ UNCHANGED <<fn, cfg, settings, lnk, pool, tc, cache, nextHandle, call, enr>>

\* gather resolves as soon as one task has finished
GatherDoneAny(n) == \E j \in 1..n : InSeq(j, bat.finished)
\* await asyncio.gather(*tasks, return_exceptions=True) resolves
GatherDone(n) == \A j \in 1..n : InSeq(j, bat.finished)

\* the results in the order in which the tasks finished
batch_results_as_completed(n) ==
    [ j \in 1..n |-> IF j <= Len(bat.finished) THEN call[bat.finished[j]] ELSE call[j] ]
\* the results in the order of the tasks
batch_results(n) == [ j \in 1..n |-> call[j] ]

\* if isinstance(result, Exception): all_results.append([])
ResultOf(r) == IF r.raised THEN <<>> ELSE r.result

\* the gather of a batch resolves: collect its results and go on with the
\* next batch, or return
BatchCollect ==
    /\ bat.pc = "gather"
    /\ LET n == BatchLen(bat, bat.i)
           i2 == bat.i + bat.batch_size
           b == [bat EXCEPT !.all_results =
                               @ \o [j \in 1..n |-> ResultOf(batch_results(n)[j])],
                            !.i = i2, !.finished = <<>>]
       IN /\ GatherDone(n)
          /\ IF i2 < Len(bat.queries)
             THEN /\ bat' = b
                  /\ call' = Tasks(b, i2)
             ELSE /\ bat' = [b EXCEPT !.pc = "done"]
                  /\ call' = [j \in BatchSlots |-> Idle]
    /\ UNCHANGED <<fn, cfg, settings, lnk, pool, tc, cache, nextHandle, enr>>

InitBatch ==
    /\ cfg \in { k \in Configs : k.token # NoToken /\ k.connector_available }
    /\ cache = {}
    /\ nextHandle = 1
    /\ call = [j \in BatchSlots |-> Idle]
    /\ enr = IdleEnr
    /\ bat = IdleBat
    /\ lnk = IdleLnk
    /\ pool = IdlePool
    /\ tc = IdleTc
    /\ fn = IdleFn
    /\ settings = DefaultSettings

NextBatch ==
    \/ \E queries \in QueryLists, batch_size \in 1..MaxBatchSize, uc \in BOOLEAN :
          BatchStart(queries, batch_size, uc)
    \/ \E j \in BatchSlots : TaskStart(j)
    \/ \E j \in BatchSlots : TaskDone(j)
    \/ BatchCollect
    \/ \E j \in BatchSlots : PostFailed(j)
    \/ \E j \in BatchSlots : PostData(j)
    \/ \E j \in BatchSlots : PostDataNull(j)
    \/ \E j \in BatchSlots : PostResultSet(j)
    \/ \E j \in BatchSlots : PostNoPayload(j)
    \/ \E j \in BatchSlots : PartFailed(j)
    \/ \E j \in BatchSlots : PartBody(j)
    \/ \E j \in BatchSlots : ConnOk(j)
    \/ \E j \in BatchSlots : ConnRaised(j)

SpecBatch == InitBatch /\ [][NextBatch]_vars

(***************************************************************************)
(* Properties of the batch dispatcher.                                     *)
(***************************************************************************)
Occurrences(seq, x) == Cardinality({ i \in 1..Len(seq) : seq[i] = x })
\* the first index (from 1) of the batch that holds query k
BatchFirst(k) == ((k - 1) \div bat.batch_size) * bat.batch_size + 1
InFlight == { j \in BatchSlots : call[j].pc \notin {"idle", "done"} }
\* the rows the backend returns for a statement name that statement
RowsBelongTo(rows, sql) == \A i \in 1..Len(rows) : rows[i][1] = sql[Len(sql)]

\* C8: when execute_queries_in_batches returns, every query has been executed
\* exactly once and the list returned has the length of the query list; its
\* element k is what the execution of queries[k] returned, in whatever order
\* the executions finished, and is the empty list when that execution raised.
C8_ResultsByPosition ==
    bat.pc = "done" =>
        /\ Len(bat.all_results) = Len(bat.queries)
        /\ \A k \in 1..Len(bat.queries) :
              /\ Occurrences(bat.started, k) = 1
              /\ Occurrences(bat.order, k) = 1
              /\ bat.outcome[k].known
              /\ bat.outcome[k].raised => bat.all_results[k] = <<>>
              /\ ~bat.outcome[k].raised =>
                    /\ bat.all_results[k] = bat.outcome[k].result
                    /\ RowsBelongTo(bat.all_results[k], bat.queries[k])

C8_Witness ==
    /\ bat.pc = "done"
    /\ Len(bat.queries) = 3 /\ bat.batch_size = 2
    /\ bat.order = <<2, 1, 3>>
    /\ bat.outcome[1].raised /\ bat.all_results[1] = <<>>
    /\ bat.all_results[2] # <<>> /\ bat.all_results[3] # <<>>
    /\ bat.queries[2] # bat.queries[3]

\* C9: during one execute_queries_in_batches call no more than batch_size of
\* its queries are in flight at any time, and a query is started only when
\* every query of the batches before its own has finished.
C9_BatchesOneAtATime ==
    bat.pc \in {"gather", "done"} =>
        /\ Cardinality(InFlight) <= bat.batch_size
        /\ \A n \in 1..Len(bat.started) :
              \A m \in 1..(BatchFirst(bat.started[n]) - 1) : InSeq(m, bat.order)

C9_Witness ==
    /\ bat.pc = "gather"
    /\ bat.batch_size = 2 /\ Len(bat.queries) = 3
    /\ bat.i = 2 /\ bat.started = <<1, 2, 3>>
    /\ call[1].pc = "post"
    /\ InSeq(1, bat.order) /\ InSeq(2, bat.order)

(***************************************************************************)
(* _process_links_rows: the rows of the issue-link query, turned into the  *)
(* per-issue link lists of the enrichment result.  links_data is a Python  *)
(* dict: a function from issue ids to the lists appended so far.           *)
(***************************************************************************)
MaxLinkNode == 3     \* issue ids 1..MaxLinkNode occur in link rows
MaxLinkRows == 2     \* most rows of one link query result

LinkNodes == 1..MaxLinkNode

\* str(row_dict.get("SOURCE")): the column holds a number, the id is its text
IssueIdStr(n) == <<IdxStr(n)>>

\* results of the link query: LINK_ID is the table's key, so rows differ in it
LinkRowLists ==
    UNION { { [ i \in 1..k |-> [ LINK_ID |-> i, SOURCE |-> ends[i][1],
                                 DESTINATION |-> ends[i][2] ] ] :
              ends \in [1..k -> LinkNodes \X LinkNodes] } : k \in 0..MaxLinkRows }

\* requested ids that passed sanitisation, in ascending order
SanitizedLists ==
    UNION { { [ i \in 1..k |-> IssueIdStr(ns[i]) ] :
              ns \in { f \in [1..k -> LinkNodes] :
                         \A i \in 1..(k - 1) : f[i] < f[i + 1] } } : k \in 0..MaxLinkNode }

\* link.copy() with the fields that tell which end the entry is attached to
link_copy(row_dict, issue_id) ==
    LET source_id == IssueIdStr(row_dict.SOURCE)
        destination_id == IssueIdStr(row_dict.DESTINATION)
    IN IF issue_id = source_id
       THEN [ link_id |-> row_dict.LINK_ID, source_id |-> source_id,
              destination_id |-> destination_id,
              relationship |-> "outward", related_issue_id |-> destination_id ]
       ELSE [ link_id |-> row_dict.LINK_ID, source_id |-> source_id,
              destination_id |-> destination_id,
              relationship |-> "inward", related_issue_id |-> source_id ]

\* if issue_id not in links_data: links_data[issue_id] = []; then append
AppendUnder(links_data, issue_id, link) ==
    IF issue_id \in DOMAIN links_data
    THEN [ links_data EXCEPT ![issue_id] = Append(@, link) ]
    ELSE links_data @@ (issue_id :> <<link>>)

\* one pass of "for issue_id in [source_id, destination_id]"
AttachLink(row_dict, issue_id, sanitized_ids, links_data) ==
    IF InSeq(issue_id, sanitized_ids)
    THEN AppendUnder(links_data, issue_id, link_copy(row_dict, issue_id))
    ELSE links_data

RECURSIVE process_links_rows(_, _, _)
process_links_rows(rows, sanitized_ids, links_data) ==
    IF rows = <<>> THEN links_data
    ELSE LET row_dict == Head(rows)
             source_id == IssueIdStr(row_dict.SOURCE)
             destination_id == IssueIdStr(row_dict.DESTINATION)
         IN process_links_rows(Tail(rows), sanitized_ids,
                AttachLink(row_dict, destination_id, sanitized_ids,
                    AttachLink(row_dict, source_id, sanitized_ids, links_data)))

\* get_issue_links hands the rows of its query and an empty dict to the helper
ProcessLinks(rows, sanitized_ids) ==
    /\ lnk.pc = "idle"
    /\ lnk' = [ pc |-> "done", rows |-> rows, sanitized_ids |-> sanitized_ids,
                links_data |-> process_links_rows(rows, sanitized_ids, <<>>) ]
    /\ UNCHANGED <<fn, cfg, settings, cache, nextHandle, call, enr, bat, pool, tc>>

InitLinks ==
    /\ cfg \in { k \in Configs : k.caching /\ k.token # NoToken /\ k.method = "api"
                                 /\ k.connector_available }
    /\ cache = {}
    /\ nextHandle = 1
    /\ call = [c \in Calls |-> Idle]
    /\ enr = IdleEnr
    /\ bat = IdleBat
    /\ lnk = IdleLnk
    /\ pool = IdlePool
    /\ tc = IdleTc
    /\ fn = IdleFn
    /\ settings = DefaultSettings

NextLinks == \E rows \in LinkRowLists, sanitized_ids \in SanitizedLists :
                ProcessLinks(rows, sanitized_ids)

SpecLinks == InitLinks /\ [][NextLinks]_vars

(***************************************************************************)
(* Properties of _process_links_rows.                                      *)
(***************************************************************************)
LinksUnder(issue_id) ==
    IF issue_id \in DOMAIN lnk.links_data THEN lnk.links_data[issue_id] ELSE <<>>

\* the entries a row left under an issue id with a given relationship tag
EntriesOf(row_dict, issue_id, tag) ==
    { i \in 1..Len(LinksUnder(issue_id)) :
        /\ LinksUnder(issue_id)[i].link_id = row_dict.LINK_ID
        /\ LinksUnder(issue_id)[i].relationship = tag }

Requested(issue_id) == InSeq(issue_id, lnk.sanitized_ids)

\* C11: for every link row (s, d), rows with s = d included, the helper adds
\* exactly one entry tagged "outward" under s if s is requested and exactly
\* one entry tagged "inward" under d if d is requested, each naming the other
\* end as the related issue, and adds no entry under an id that was not
\* requested.
C11_OneOutwardOneInward ==
    lnk.pc = "done" =>
        /\ \A k \in DOMAIN lnk.links_data : Requested(k)
        /\ \A n \in 1..Len(lnk.rows) :
             LET row_dict == lnk.rows[n]
                 s == IssueIdStr(row_dict.SOURCE)
                 d == IssueIdStr(row_dict.DESTINATION)
                 out == EntriesOf(row_dict, s, "outward")
                 inw == EntriesOf(row_dict, d, "inward")
             IN /\ Cardinality(out) = IF Requested(s) THEN 1 ELSE 0
                /\ Cardinality(inw) = IF Requested(d) THEN 1 ELSE 0
                /\ \A i \in out : LinksUnder(s)[i].related_issue_id = d
                /\ \A i \in inw : LinksUnder(d)[i].related_issue_id = s
                /\ \A k \in DOMAIN lnk.links_data :
                     /\ EntriesOf(row_dict, k, "outward") # {} => k = s
                     /\ EntriesOf(row_dict, k, "inward") # {} => k = d

(***************************************************************************)
(* execute_snowflake_query called one call after the other, with and       *)
(* without a token of the caller's.                                        *)
(***************************************************************************)
NextAuth ==
    \/ \E sql \in Statements, tok \in Tokens, uc \in BOOLEAN : ExecStart("c1", sql, tok, uc)
    \/ PostFailed("c1")
    \/ PostData("c1")
    \/ PostDataNull("c1")
    \/ PostResultSet("c1")
    \/ PostNoPayload("c1")
    \/ PartFailed("c1")
    \/ PartBody("c1")
    \/ ConnOk("c1")
    \/ ConnRaised("c1")
    \/ ExecReturn("c1")

SpecAuth == Init /\ [][NextAuth]_vars

(***************************************************************************)
(* Properties of the requests a call sends.                                *)
(***************************************************************************)
HttpMethods == { "POST", "GET" }

C13_NoTokenFailsFast ==
    \A c \in Calls :
        ( /\ call[c].pc = "done"
          /\ cfg.method = "api"
          /\ IsStr(call[c].sql)
          /\ call[c].tok = NoToken /\ cfg.token = NoToken )
        => /\ call[c].raised
           /\ call[c].wire = <<>>

\* C16: every request sent to the backend (statement submission, partition
\* fetch, query run through the native driver) was sent after an acquire of
\* the rate limiter made for that request.
C16_EveryRequestThrottled ==
    \A c \in Calls : \A i \in 1..Len(call[c].wire) : call[c].wire[i].acquired

(***************************************************************************)
(* execute_snowflake_query on the native-driver route, under every         *)
(* combination of connection settings.                                     *)
(***************************************************************************)
InitConn ==
    /\ cfg \in { k \in Configs : k.method = "connector" /\ k.connector_available }
    /\ settings \in ConnSettings
    /\ cache = {}
    /\ nextHandle = 1
    /\ call = [c \in Calls |-> Idle]
    /\ enr = IdleEnr
    /\ bat = IdleBat
    /\ lnk = IdleLnk
    /\ pool = IdlePool
    /\ tc = IdleTc
    /\ fn = IdleFn

NextConn ==
    \/ \E sql \in Statements, uc \in BOOLEAN : ExecStart("c1", sql, NoToken, uc)
    \/ ConnOk("c1")
    \/ ConnConfigError("c1")
    \/ ConnRaised("c1")
    \/ ExecReturn("c1")

SpecConn == InitConn /\ [][NextConn]_vars

\* C14: on the native-driver route, a call that fails because the connection
\* parameters cannot be built (ValueError) ends in an error raised to its
\* caller, not in an empty row list.
C14_ConfigErrorReachesCaller ==
    \A c \in Calls :
        ( /\ call[c].pc = "done"
          /\ call[c].post = "config_error"
          /\ build_connection_params(settings).raises = "ValueError" )
        => call[c].raised

(***************************************************************************)
(* SnowflakeConnectorPool and get_connector_pool, as the worker threads of  *)
(* _thread_pool and cleanup_resources use them.  The blocks under          *)
(* "with self._lock" exclude each other, so each is one step; the check    *)
(* and the assignment in get_connector_pool are not under any lock.        *)
(***************************************************************************)
MaxConns == 3        \* connections snowflake.connector.connect opens in one run

SetWorker(w, rec) == [ pool EXCEPT !.drv.th[w] = rec ]

\* _execute_connector_query_sync enters get_connector_pool:
\* "if _connector_pool is None"
CheckPool(w) ==
    /\ pool.drv.th[w].pc = "idle"
    /\ pool.drv.cl.calls = 0          \* the worker pool still takes work
    /\ pool' = SetWorker(w, [ IdleWorker EXCEPT !.pc =
                   IF pool.drv.connector_pool = NoInst THEN "construct" ELSE "return" ])
    /\ UNCHANGED <<fn, cfg, settings, cache, nextHandle, call, enr, bat, lnk, tc>>

\* "_connector_pool = SnowflakeConnectorPool()"
ConstructPool(w) ==
    /\ pool.drv.th[w].pc = "construct"
    /\ pool' = [ pool EXCEPT !.drv.made = @ + 1,
                             !.drv.connector_pool = pool.drv.made + 1,
                             !.drv.th[w].pc = "return" ]
    /\ UNCHANGED <<fn, cfg, settings, cache, nextHandle, call, enr, bat, lnk, tc>>

\* "return _connector_pool"
ReturnPool(w) ==
    /\ pool.drv.th[w].pc = "return"
    /\ pool' = [ pool EXCEPT !.drv.th[w].pc = "get",
                             !.drv.th[w].inst = pool.drv.connector_pool ]
    /\ UNCHANGED <<fn, cfg, settings, cache, nextHandle, call, enr, bat, lnk, tc>>

IsOpen(d, conn) == conn # NoConn /\ ~d.closed[conn]

\* "self._connection is None or self._connection.is_closed()"
NeedsConnection(d, inst) == ~IsOpen(d, d.held[inst])

\* pool.get_connection()
GetConnection(w) ==
    /\ pool.drv.th[w].pc = "get"
    /\ LET d == pool.drv
           inst == d.th[w].inst
           held == d.held[inst]
           t == [ d.th[w] EXCEPT !.pc = "got", !.held_before = held,
                                 !.was_open = IsOpen(d, held) ]
           built == build_connection_params(settings)
       IN IF ~NeedsConnection(d, inst)
          THEN pool' = SetWorker(w, [ t EXCEPT !.conn = held ])
          ELSE IF built.raises # "none"
          THEN pool' = SetWorker(w, [ t EXCEPT !.raised = built.raises ])
          ELSE \/ \* snowflake.connector.connect(**conn_params) returns
                  /\ Len(d.closed) < MaxConns
                  /\ pool' = [ pool EXCEPT
                                 !.drv.closed = Append(@, FALSE),
                                 !.drv.held[inst] = Len(d.closed) + 1,
                                 !.drv.th[w] = [ t EXCEPT !.conn = Len(d.closed) + 1,
                                                          !.opened = TRUE ] ]
               \/ \* it raises
                  pool' = SetWorker(w, [ t EXCEPT !.raised = "connect_error",
                                                   !.opened = TRUE ])
    /\ UNCHANGED <<fn, cfg, settings, cache, nextHandle, call, enr, bat, lnk, tc>>

\* the query has run on the connection, or the exception has been re-raised
WorkerDone(w) ==
    /\ pool.drv.th[w].pc = "got"
    /\ pool' = SetWorker(w, IdleWorker)
    /\ UNCHANGED <<fn, cfg, settings, cache, nextHandle, call, enr, bat, lnk, tc>>

\* the far side or the driver ends a connection: is_closed() turns true
ConnLost ==
    /\ \E conn \in 1..Len(pool.drv.closed) :
          /\ ~pool.drv.closed[conn]
          /\ pool' = [ pool EXCEPT !.drv.closed[conn] = TRUE ]
    /\ UNCHANGED <<fn, cfg, settings, cache, nextHandle, call, enr, bat, lnk, tc>>

\* cleanup_resources: "if _connector_pool: _connector_pool.close()"
ClosePool ==
    /\ pool.drv.cl.calls = 0
    /\ pool.drv.connector_pool # NoInst
    /\ LET d == pool.drv
           inst == d.connector_pool
           held == d.held[inst]
       IN IF IsOpen(d, held)
          THEN \* self._connection.close() returns, or raises and is logged:
               \* then the connection may be left open; finally: clear
               \E now_closed \in BOOLEAN :
                  pool' = [ pool EXCEPT
                              !.drv.closed[held] = now_closed,
                              !.drv.held[inst] = NoConn,
                              !.drv.cl = [ calls |-> 1, prev |-> held, left |-> NoConn,
                                           prev_closed |-> now_closed ] ]
          ELSE pool' = [ pool EXCEPT
                           !.drv.cl = [ calls |-> 1, prev |-> held, left |-> held,
                                        prev_closed |-> held # NoConn ] ]
    /\ UNCHANGED <<fn, cfg, settings, cache, nextHandle, call, enr, bat, lnk, tc>>

\* the native-driver deployments: connector installed and selected
InitConnectorPool ==
    /\ cfg \in { k \in Configs : k.method = "connector" /\ k.connector_available /\ k.caching }
    /\ settings = DefaultSettings
    /\ cache = {}
    /\ nextHandle = 1
    /\ call = [c \in Calls |-> Idle]
    /\ enr = IdleEnr
    /\ bat = IdleBat
    /\ lnk = IdleLnk
    /\ pool = IdlePool
    /\ tc = IdleTc
    /\ fn = IdleFn

NextConnectorPool ==
    \/ \E w \in Workers : CheckPool(w)
    \/ \E w \in Workers : ConstructPool(w)
    \/ \E w \in Workers : ReturnPool(w)
    \/ \E w \in Workers : GetConnection(w)
    \/ \E w \in Workers : WorkerDone(w)
    \/ ConnLost
    \/ ClosePool

SpecConnectorPool == InitConnectorPool /\ [][NextConnectorPool]_vars

\* one worker at a time, under every combination of connection settings
InitParams ==
    /\ cfg \in { k \in Configs : k.method = "connector" /\ k.connector_available /\ k.caching }
    /\ settings \in ConnSettings
    /\ cache = {}
    /\ nextHandle = 1
    /\ call = [c \in Calls |-> Idle]
    /\ enr = IdleEnr
    /\ bat = IdleBat
    /\ lnk = IdleLnk
    /\ pool = IdlePool
    /\ tc = IdleTc
    /\ fn = IdleFn

NextParams ==
    \/ CheckPool("w1")
    \/ ConstructPool("w1")
    \/ ReturnPool("w1")
    \/ GetConnection("w1")
    \/ WorkerDone("w1")
    \/ ConnLost

SpecParams == InitParams /\ [][NextParams]_vars

(***************************************************************************)
(* Properties of the native driver's pool.                                 *)
(***************************************************************************)
\* the fields the selected authentication method needs
PasswordAuth(st) ==
    AuthLower(st.authenticator) \notin { "snowflake_jwt", "oauth_client_credentials", "oauth" }
MissingRequired(st) ==
    \/ st.account = Unset
    \/ PasswordAuth(st) /\ (st.user = Unset \/ st.password = Unset)
    \/ AuthLower(st.authenticator) = "snowflake_jwt"
         /\ (st.user = Unset \/ st.private_key_file = Unset)
    \/ AuthLower(st.authenticator) = "oauth_client_credentials"
         /\ (st.oauth_client_id = Unset \/ st.oauth_client_secret = Unset)
    \/ AuthLower(st.authenticator) = "oauth" /\ cfg.token = NoToken

\* C15: under every configuration in which the account or a field required
\* by the selected authentication method is missing (password: user and
\* password; JWT: user and private-key file; OAuth client credentials: client
\* id and secret; OAuth token: the token), _build_connection_params raises
\* ValueError, and a get_connection that has to connect raises it without
\* calling connect and leaves the held connection as it was.
C15_MissingFieldRaisesValueError ==
    MissingRequired(settings) =>
        /\ build_connection_params(settings).raises = "ValueError"
        /\ \A w \in Workers :
             pool.drv.th[w].pc = "got" /\ ~pool.drv.th[w].was_open =>
                /\ pool.drv.th[w].raised = "ValueError"
                /\ ~pool.drv.th[w].opened
                /\ pool.drv.held[pool.drv.th[w].inst] = pool.drv.th[w].held_before

\* C17: get_connector_pool returns the same instance to every caller, also
\* when worker threads make the first calls at the same time, and at most
\* one SnowflakeConnectorPool is ever constructed.
C17_OnePoolInstance ==
    /\ pool.drv.made <= 1
    /\ \A v, w \in Workers :
          pool.drv.th[v].inst # NoInst /\ pool.drv.th[w].inst # NoInst
             => pool.drv.th[v].inst = pool.drv.th[w].inst

\* C19: get_connection returns the held connection when that one is open
\* and connects only when none is held or the held one is closed; when
\* close() returns, the pool holds no connection and the connection held
\* before is closed.
C19_HeldConnectionReusedAndCleared ==
    /\ \A w \in Workers :
          pool.drv.th[w].pc = "got" =>
             /\ pool.drv.th[w].was_open =>
                   /\ pool.drv.th[w].conn = pool.drv.th[w].held_before
                   /\ ~pool.drv.th[w].opened
             /\ pool.drv.th[w].opened => ~pool.drv.th[w].was_open
    /\ pool.drv.cl.calls > 0 =>
          /\ pool.drv.cl.left = NoConn
          /\ pool.drv.cl.prev # NoConn => pool.drv.cl.prev_closed

(***************************************************************************)
(* SnowflakeConnectionPool and get_connection_pool, as the coroutines of   *)
(* make_snowflake_request and cleanup_resources use them on the event      *)
(* loop.  A coroutine runs until it awaits: on the lock when another holds *)
(* it, and on aclose().                                                    *)
(***************************************************************************)
MaxClients == 3      \* httpx.AsyncClient objects constructed in one run

\* self._client is None
NeedsClientNoneOnly(a) == a.client = NoClient
\* self._client is None or self._client.is_closed
NeedsClient(a) == a.client = NoClient \/ a.closed[a.client]

\* get_connection_pool(): no await between the check and the assignment
get_connection_pool(a) ==
    IF a.connection_pool = NoInst
    THEN [ a EXCEPT !.made = @ + 1, !.connection_pool = a.made + 1 ]
    ELSE a

\* the body of get_client under the lock, for coroutine t
GetClientBody(a, t) ==
    LET was_open == a.client # NoClient /\ ~a.closed[a.client]
        b == IF NeedsClient(a)
             THEN [ a EXCEPT !.closed = Append(@, FALSE), !.client = Len(a.closed) + 1 ]
             ELSE a
    IN [ b EXCEPT !.co[t] = [ pc |-> "got", client |-> b.client, before |-> a.client,
                              was_open |-> was_open, constructed |-> b.client # a.client,
                              ret_open |-> ~b.closed[b.client] ] ]

CanConstruct(a) == NeedsClient(a) => Len(a.closed) < MaxClients

\* make_snowflake_request: pool = get_connection_pool(); await pool.get_client()
GetClientCall(t) ==
    /\ pool.api.co[t].pc = "idle"
    /\ LET a == get_connection_pool(pool.api)
       IN IF a.lock = NoTask
          THEN /\ CanConstruct(a)
               /\ pool' = [ pool EXCEPT !.api = GetClientBody(a, t) ]
          ELSE pool' = [ pool EXCEPT !.api = [ a EXCEPT !.co[t].pc = "wait" ] ]
    /\ UNCHANGED <<fn, cfg, settings, cache, nextHandle, call, enr, bat, lnk, tc>>

\* the lock is free again: a waiting get_client goes on
GetClientResume(t) ==
    /\ pool.api.co[t].pc = "wait"
    /\ pool.api.lock = NoTask
    /\ CanConstruct(pool.api)
    /\ pool' = [ pool EXCEPT !.api = GetClientBody(pool.api, t) ]
    /\ UNCHANGED <<fn, cfg, settings, cache, nextHandle, call, enr, bat, lnk, tc>>

\* the request has been sent on the client
RequestDone(t) ==
    /\ pool.api.co[t].pc = "got"
    /\ pool' = [ pool EXCEPT !.api.co[t] = IdleCoroutine ]
    /\ UNCHANGED <<fn, cfg, settings, cache, nextHandle, call, enr, bat, lnk, tc>>

\* cleanup_resources: "if _connection_pool: await _connection_pool.close()",
\* up to "await self._client.aclose()"
CloseCall ==
    /\ pool.api.closer = "idle"
    /\ pool.api.connection_pool # NoInst
    /\ pool.api.lock = NoTask
    /\ IF ~NeedsClient(pool.api)
       THEN pool' = [ pool EXCEPT !.api.lock = "closer", !.api.closer = "closing" ]
       ELSE UNCHANGED pool
    /\ UNCHANGED <<fn, cfg, settings, cache, nextHandle, call, enr, bat, lnk, tc>>

\* aclose() is done: the client is closed, the lock released
CloseDone ==
    /\ pool.api.closer = "closing"
    /\ pool' = [ pool EXCEPT !.api.closed[pool.api.client] = TRUE,
                             !.api.lock = NoTask, !.api.closer = "idle" ]
    /\ UNCHANGED <<fn, cfg, settings, cache, nextHandle, call, enr, bat, lnk, tc>>

InitConnectionPool ==
    /\ cfg \in { k \in Configs : k.method = "api" /\ k.token # NoToken }
    /\ settings = DefaultSettings
    /\ cache = {}
    /\ nextHandle = 1
    /\ call = [c \in Calls |-> Idle]
    /\ enr = IdleEnr
    /\ bat = IdleBat
    /\ lnk = IdleLnk
    /\ pool = IdlePool
    /\ tc = IdleTc
    /\ fn = IdleFn

NextConnectionPool ==
    \/ \E t \in Coroutines : GetClientCall(t)
    \/ \E t \in Coroutines : GetClientResume(t)
    \/ \E t \in Coroutines : RequestDone(t)
    \/ CloseCall
    \/ CloseDone

SpecConnectionPool == InitConnectionPool /\ [][NextConnectionPool]_vars

\* C18: get_client never returns a closed client, returns the client it
\* returned before while that one is open, and constructs a client only when
\* the pool has none or the one it has is closed (the first get_client after
\* close() included), also when get_client calls overlap.
C18_ClientOpenAndReused ==
    /\ pool.api.made <= 1
    /\ \A t \in Coroutines :
          pool.api.co[t].pc = "got" =>
             /\ pool.api.co[t].client # NoClient
             /\ pool.api.co[t].ret_open
             /\ pool.api.co[t].was_open =>
                   /\ pool.api.co[t].client = pool.api.co[t].before
                   /\ ~pool.api.co[t].constructed
             /\ pool.api.co[t].constructed => ~pool.api.co[t].was_open

\* a get_client that waited for close() to finish has replaced the closed
\* client, while the other coroutine still has the old one
C18_Witness ==
    \E t, u \in Coroutines :
        /\ pool.api.co[t].pc = "got" /\ pool.api.co[t].constructed
        /\ pool.api.co[t].before # NoClient
        /\ pool.api.co[u].pc = "got" /\ pool.api.co[u].client = pool.api.co[t].before

(***************************************************************************)
(* The response cache with its clock: _cache = TTLCache(maxsize, ttl),     *)
(* get_from_cache, set_in_cache and clear_cache.  An item is a key, a      *)
(* value and the time from which it counts as expired.                     *)
(***************************************************************************)
CacheTtl == 2        \* CACHE_TTL_SECONDS, in ticks of the model's clock
MaxTime == 3         \* the clock stops here

CacheKeys == { "k1", "k2", "k3" }
CacheValues == { "v1", "v2", TcNone }

\* TTLCache.expire(time): the items still alive at that time
Unexpired(items, time) == { e \in items : time < e.expires }

\* the lookup without the test of the expiry time
ttl_get_any(items, time, key) ==
    IF \E e \in items : e.key = key
    THEN (CHOOSE e \in items : e.key = key).value
    ELSE TcNone
\* _cache.get(key): the value of an unexpired item, else the default None
ttl_get(items, time, key) ==
    IF \E e \in Unexpired(items, time) : e.key = key
    THEN (CHOOSE e \in Unexpired(items, time) : e.key = key).value
    ELSE TcNone

\* the assignment without making room for the new item
ttl_setitem_unbounded(items, time, key, value) ==
    LET kept == { e \in Unexpired(items, time) : e.key # key }
        new == [ key |-> key, value |-> value, expires |-> time + CacheTtl ]
    IN { kept \cup {new} }
\* _cache[key] = value: expired items go, the key's old item is replaced, and
\* when the cache is full another item makes room; the results it can have
ttl_setitem(items, time, key, value) ==
    LET kept == { e \in Unexpired(items, time) : e.key # key }
        new == [ key |-> key, value |-> value, expires |-> time + CacheTtl ]
    IN IF Cardinality(kept) + 1 > CacheMaxSize
       THEN { (kept \ {victim}) \cup {new} : victim \in kept }
       ELSE { kept \cup {new} }

\* set_in_cache(key, value)
CacheSet(key, value) ==
    /\ \E items \in ( IF cfg.caching
                      THEN ttl_setitem(tc.items, tc.now, key, value)
                      ELSE { tc.items } ) :
          tc' = [ tc EXCEPT !.items = items,
                            !.set_at = [ k \in (DOMAIN tc.set_at) \cup {key} |->
                                           IF k = key THEN tc.now ELSE tc.set_at[k] ],
                            !.last = [ op |-> "set", key |-> key, value |-> value ],
                            !.seen = NoSeen ]
    /\ UNCHANGED <<fn, cfg, settings, cache, nextHandle, call, enr, bat, lnk, pool>>

\* get_from_cache(key)
CacheGet(key) ==
    /\ LET returned == IF cfg.caching THEN ttl_get(tc.items, tc.now, key) ELSE TcNone
       IN tc' = [ tc EXCEPT
                    !.last = [ op |-> "get", key |-> key, value |-> returned ],
                    !.seen = [ key |-> key, returned |-> returned,
                               age |-> IF key \in DOMAIN tc.set_at
                                       THEN tc.now - tc.set_at[key] ELSE -1,
                               prev |-> tc.last ] ]
    /\ UNCHANGED <<fn, cfg, settings, cache, nextHandle, call, enr, bat, lnk, pool>>

\* clear_cache()
CacheClear ==
    /\ tc' = [ tc EXCEPT !.items = IF cfg.caching THEN {} ELSE @,
                         !.last = [ NoOp EXCEPT !.op = "clear" ],
                         !.seen = NoSeen ]
    /\ UNCHANGED <<fn, cfg, settings, cache, nextHandle, call, enr, bat, lnk, pool>>

\* time.monotonic() moves on
Tick ==
    /\ tc.now < MaxTime
    /\ tc' = [ tc EXCEPT !.now = @ + 1, !.last = NoOp, !.seen = NoSeen ]
    /\ UNCHANGED <<fn, cfg, settings, cache, nextHandle, call, enr, bat, lnk, pool>>

InitCache ==
    /\ cfg \in { k \in Configs : k.method = "api" /\ k.token # NoToken /\ k.connector_available }
    /\ settings = DefaultSettings
    /\ cache = {}
    /\ nextHandle = 1
    /\ call = [c \in Calls |-> Idle]
    /\ enr = IdleEnr
    /\ bat = IdleBat
    /\ lnk = IdleLnk
    /\ pool = IdlePool
    /\ tc = IdleTc
    /\ fn = IdleFn

NextCache ==
    \/ \E key \in CacheKeys, value \in CacheValues : CacheSet(key, value)
    \/ \E key \in CacheKeys : CacheGet(key)
    \/ CacheClear
    \/ Tick

SpecCache == InitCache /\ [][NextCache]_vars

\* C20: with caching enabled, a get_from_cache(k) that comes right after
\* set_in_cache(k, v) returns v, and a get_from_cache(k) made when the TTL
\* has passed since the latest set_in_cache of k returns None.
C20_SetThenGetUntilTtl ==
    cfg.caching /\ tc.last.op = "get" =>
        /\ tc.seen.prev.op = "set" /\ tc.seen.prev.key = tc.seen.key
              => tc.seen.returned = tc.seen.prev.value
        /\ tc.seen.age >= CacheTtl => tc.seen.returned = TcNone

\* the TTL of a value has just passed: its item is still in the cache, and
\* get_from_cache has returned None for its key
C20_Witness ==
    /\ cfg.caching
    /\ tc.last.op = "get"
    /\ tc.seen.age = CacheTtl
    /\ tc.seen.returned = TcNone
    /\ \E e \in tc.items : e.key = tc.seen.key /\ e.value # TcNone

(***************************************************************************)
(* The gateway with ENABLE_CACHING off: calls of execute_snowflake_query,  *)
(* of clear_cache, and of set_in_cache by a caller of its own.             *)
(***************************************************************************)
\* set_in_cache(key, value) called directly
SetInCache(sql, rows) ==
    /\ \E c2 \in set_in_cache(cache, sql_query_key(sql), rows, NoBody) :
          /\ cache' = c2
          /\ call' = Stale(call, c2, FALSE)
    /\ UNCHANGED <<fn, enr, bat, cfg, settings, lnk, pool, tc, nextHandle>>

InitCacheOff == Init /\ ~cfg.caching

NextCacheOff ==
    \/ \E c \in Calls, sql \in Statements, uc \in BOOLEAN : ExecStart(c, sql, NoToken, uc)
    \/ \E c \in Calls : PostFailed(c)
    \/ \E c \in Calls : PostData(c)
    \/ \E c \in Calls : PostDataNull(c)
    \/ \E c \in Calls : PostResultSet(c)
    \/ \E c \in Calls : PostNoPayload(c)
    \/ \E c \in Calls : PartFailed(c)
    \/ \E c \in Calls : PartBody(c)
    \/ \E c \in Calls : ConnOk(c)
    \/ \E c \in Calls : ConnRaised(c)
    \/ \E c \in Calls : ExecReturn(c)
    \/ ClearCache
    \/ \E sql \in Statements \ {PyNone} : \E rows \in PartRows(sql, 0) : SetInCache(sql, rows)

SpecCacheOff == InitCacheOff /\ [][NextCacheOff]_vars

\* the call's statement can be sent: a token on the HTTP route, an installed
\* driver with complete settings on the native route
CanSend(r) ==
    IF cfg.method = "api" THEN EffectiveToken(r.tok) # NoToken
    ELSE build_connection_params(settings).raises = "none"

\* every key a statement or a partition fetch is cached under
AllKeys ==
    { sql_query_key(sql) : sql \in Statements \ {PyNone} }
    \cup { connector_key(sql) : sql \in Statements \ {PyNone} }
    \cup { api_request_key(partition_endpoint(HandleStr(h), i)) :
              h \in 1..MaxHandles, i \in 1..MaxParts }

\* C21 as stated: with caching disabled, get_from_cache returns none for
\* every key, no entry is ever stored, and every execute call for a
\* statement string that has returned has sent a request to the backend.
C21_EveryExecuteReachesBackend ==
    ~cfg.caching =>
        /\ cache = {}
        /\ \A key \in AllKeys : ~Found(get_from_cache(cache, key))
        /\ \A c \in Calls :
              (call[c].pc = "done" /\ IsStr(call[c].sql)) => call[c].reqs >= 1

\* C21 as amended: with caching disabled, get_from_cache returns none for
\* every key and no entry is ever stored, so no execute call is answered from
\* the cache: every call for a statement string that has a token (HTTP
\* route) or an installed driver with complete settings (native route) has
\* sent a request to the backend when it returns.
C21_NothingCachedWhenDisabled ==
    ~cfg.caching =>
        /\ cache = {}
        /\ \A key \in AllKeys : ~Found(get_from_cache(cache, key))
        /\ \A c \in Calls :
              LET r == call[c]
              IN /\ ~r.hadEntry /\ ~r.stored
                 /\ (r.pc = "done" /\ IsStr(r.sql) /\ CanSend(r)) => r.reqs >= 1

\* caching is off, and a call that asked for caching on a SELECT has been
\* through set_in_cache with the rows of a response
C21_Witness ==
    /\ ~cfg.caching /\ cache = {}
    /\ \E c \in Calls :
          LET r == call[c]
          IN /\ r.pc = "done" /\ r.use_cache /\ r.cache_key # NoKey
             /\ r.post = "data" /\ r.result # <<>> /\ r.reqs >= 1

\* C22: in every reachable state the response cache holds at most
\* CACHE_MAX_SIZE entries, whatever set_in_cache calls with distinct keys
\* have been made.
C22_CacheBounded == Cardinality(tc.items) <= CacheMaxSize

\* more distinct keys than the cache has room for have been set, the last
\* operation was a set_in_cache, and the cache is full
C22_Witness ==
    /\ cfg.caching
    /\ Cardinality(DOMAIN tc.set_at) > CacheMaxSize
    /\ tc.last.op = "set"
    /\ Cardinality(tc.items) = CacheMaxSize

(***************************************************************************)
(* Enrichment calls, one after the other, whose id lists hold the same ids *)
(* in different orders.                                                    *)
(***************************************************************************)
PermLists == { << <<"1">>, <<"2">> >>, << <<"2">>, <<"1">> >>, << <<"2">> >> }

NextPerm ==
    \/ \E ids \in PermLists, uc \in BOOLEAN : EnrichStart(ids, "T1", uc)
    \/ \E b \in BranchNames : SubStart(b)
    \/ \E b \in BranchNames : SubResume(b)
    \/ EnrichCollect
    \/ EnrichReturn
    \/ \E b \in BranchNames : PostFailed(b)
    \/ \E b \in BranchNames : PostResultSet(b)
    \/ \E b \in BranchNames : ConnOk(b)
    \/ \E b \in BranchNames : ConnRaised(b)

SpecPerm == InitEnrich /\ [][NextPerm]_vars

IsPermutation(a, b) ==
    /\ Len(a) = Len(b)
    /\ \A i \in 1..Len(a) : Occurrences(a, a[i]) = Occurrences(b, a[i])

\* C23: for each enrichment sub-query, a call with caching stores the map it
\* returns under its key, and a call with caching that starts while the cache
\* holds the entry stored under the key of a permutation of its id list
\* returns that entry's map and issues no query.
C23_PermutationServedFromCache ==
    [][ \A b \in BranchNames :
          LET s == enr.sub[b]
              t == enr'.sub[b]
          IN /\ ( /\ cfg.caching /\ s.pc = "query" /\ t.pc = "done"
                  /\ s.args[3] /\ ~call[b].raised )
                => \E e \in cache' : /\ e.key = issue_ids_key(b, s.args[1])
                                      /\ e.rows = t.result
             /\ ( /\ cfg.caching /\ s.pc = "created" /\ t.pc # "created" /\ s.args[3] )
                => \A ids \in PermLists : \A e \in cache :
                      ( IsPermutation(ids, s.args[1]) /\ e.key = issue_ids_key(b, ids) )
                      => /\ t.pc = "done" /\ ~t.raised
                         /\ t.result = e.rows
                         /\ t.queries = 0
                         /\ call'[b] = call[b] ]_vars

\* a call for the ids 2, 1 has been served the map built from the rows of
\* the query for the ids 1, 2
C23_Witness ==
    \E b \in BranchNames :
        LET s == enr.sub[b]
        IN /\ s.pc = "done" /\ s.hit /\ s.queries = 0
           /\ s.args[1] = << <<"2">>, <<"1">> >>
           /\ s.result # EmptyMap
           /\ \E i \in 1..Len(s.result) : s.result[i][1] = <<"2">>

(***************************************************************************)
(* get_cache_key applied to keyword arguments.  The arguments of a call    *)
(* are the sequence of <<name, value>> pairs in the order they are passed; *)
(* Python collects them into the dict kwargs.                              *)
(***************************************************************************)
MaxParams == 3       \* most keyword arguments of one call

ParamNames == { "data", "endpoint", "issue_ids", "sql" }
ParamValues == { PyNone, <<"a">> }
Operations == { "api_request", "sql_query" }
ParamLists ==
    UNION { { items \in [1..n -> ParamNames \X ParamValues] :
                \A i, j \in 1..n : items[i][1] = items[j][1] => i = j } : n \in 0..MaxParams }

\* **kwargs: the dict of the keyword arguments passed
Kwargs(items) ==
    [ name \in { items[i][1] : i \in 1..Len(items) } |->
        items[CHOOSE i \in 1..Len(items) : items[i][1] = name][2] ]

GetCacheKey(operation, items) ==
    /\ fn' = [ name |-> "get_cache_key", args |-> <<operation, items>>,
               result |-> get_cache_key(operation, Kwargs(items)) ]
    /\ UNCHANGED <<cfg, settings, cache, nextHandle, call, enr, bat, lnk, pool, tc>>

InitKey == Init /\ cfg.caching /\ cfg.method = "api" /\ cfg.token # NoToken

NextKey == \E operation \in Operations, items \in ParamLists : GetCacheKey(operation, items)

SpecKey == InitKey /\ [][NextKey]_vars

\* the parameters passed that are not None
NonNull(items) == { items[i] : i \in { j \in 1..Len(items) : items[j][2] # PyNone } }

\* C24: get_cache_key(operation, params) is the operation name followed by
\* one "name:value" part for every parameter whose value is not None, in
\* ascending order of the parameter names; it is the same key for the same
\* parameters passed in any other order, with or without None-valued ones.
C24_KeyIsSortedNonNullParams ==
    fn.name = "get_cache_key" =>
        LET operation == fn.args[1]
            items == fn.args[2]
            key == fn.result
        IN /\ key[1] = operation
           /\ Len(key) = 1 + Cardinality(NonNull(items))
           /\ { key[j] : j \in 2..Len(key) } = NonNull(items)
           /\ \A j \in 2..(Len(key) - 1) : NameRank(key[j][1]) < NameRank(key[j + 1][1])
           /\ \A other \in ParamLists :
                 NonNull(other) = NonNull(items)
                 => get_cache_key(operation, Kwargs(other)) = key

\* three parameters passed in descending name order, the middle one None
C24_Witness ==
    /\ fn.name = "get_cache_key"
    /\ fn.args[2] = << <<"sql", <<"a">> >>, <<"endpoint", PyNone>>, <<"data", <<"a">> >> >>
    /\ fn.result = << fn.args[1], <<"data", <<"a">> >>, <<"sql", <<"a">> >> >>

\* C25: all sub-queries of an enrichment call are created before the call
\* waits for any of them, none of them has to wait for another one to finish
\* before it starts, and in whatever order they finish the call returns, in
\* the place of each sub-query, the map that sub-query returned.
C25_StartedTogetherFixedPositions ==
    /\ enr.pc = "gather" => \A b \in BranchNames : enr.sub[b].pc # "idle"
    /\ (enr.pc = "gather" /\ \E b \in BranchNames : enr.sub[b].pc = "created")
          => \E b \in BranchNames : IsNextToStart(b)
    /\ (enr.pc = "done" /\ enr.issue_ids # <<>>) =>
          /\ Len(enr.result) = Len(Branches)
          /\ \A b \in BranchNames :
                /\ enr.sub[b].pc = "done"
                /\ enr.sub[b].args = <<enr.issue_ids, enr.tok, enr.use_cache>>
                /\ enr.result[BranchRank(b)] =
                      IF enr.sub[b].raised THEN EmptyMap ELSE enr.sub[b].result

\* the sub-query created last has returned its map while the two created
\* before it are still waiting for the backend
C25_Witness ==
    /\ enr.pc = "gather"
    /\ enr.sub["labels"].pc = "query" /\ enr.sub["comments"].pc = "query"
    /\ enr.sub["links"].pc = "done" /\ enr.sub["links"].queries = 1
    /\ enr.sub["links"].result # EmptyMap

(***************************************************************************)
(* cleanup_resources, called when the server has stopped: no coroutine is  *)
(* inside a request any more, but worker threads of _thread_pool may still *)
(* be inside _execute_connector_query_sync.  pool.api.closer is the place  *)
(* of cleanup_resources: "closing" (awaiting aclose()), "shutdown" (inside *)
(* _thread_pool.shutdown(wait=True)), "returned"; pool.drv.cl.calls counts *)
(* its calls.                                                              *)
(***************************************************************************)
MaxCleanups == 2     \* calls of cleanup_resources in one run

\* "if _connector_pool: _connector_pool.close()", then the call of
\* _thread_pool.shutdown(wait=True): the pools that can result
CleanupConnector(p) ==
    LET d == p.drv
        inst == d.connector_pool
        held == IF inst = NoInst THEN NoConn ELSE d.held[inst]
        q == [ p EXCEPT !.api.closer = "shutdown" ]
    IN IF inst # NoInst /\ IsOpen(d, held)
       THEN { [ q EXCEPT !.drv.closed[held] = now_closed,
                         !.drv.held[inst] = NoConn,
                         !.drv.cl = [ calls |-> d.cl.calls + 1, prev |-> held,
                                      left |-> NoConn, prev_closed |-> now_closed ] ] :
                now_closed \in BOOLEAN }
       ELSE { [ q EXCEPT !.drv.cl = [ calls |-> d.cl.calls + 1, prev |-> held,
                                      left |-> held, prev_closed |-> held # NoConn ] ] }

\* cleanup_resources up to "await self._client.aclose()", or without an open
\* client up to the wait for the worker threads
CleanupCall ==
    /\ pool.api.closer \in { "idle", "returned" }
    /\ pool.drv.cl.calls < MaxCleanups
    /\ \A t \in Coroutines : pool.api.co[t].pc = "idle"
    /\ IF pool.api.connection_pool # NoInst /\ ~NeedsClient(pool.api)
       THEN pool' = [ pool EXCEPT !.api.lock = "closer", !.api.closer = "closing" ]
       ELSE pool' \in CleanupConnector(pool)
    /\ UNCHANGED <<fn, cfg, settings, cache, nextHandle, call, enr, bat, lnk, tc>>

\* aclose() is done; on to the native pool and the worker threads
CleanupResume ==
    /\ pool.api.closer = "closing"
    /\ pool' \in CleanupConnector([ pool EXCEPT !.api.closed[pool.api.client] = TRUE,
                                                 !.api.lock = NoTask ])
    /\ UNCHANGED <<fn, cfg, settings, cache, nextHandle, call, enr, bat, lnk, tc>>

\* the worker threads are through: shutdown returns, clear_cache(), return
CleanupReturn ==
    /\ pool.api.closer = "shutdown"
    /\ \A w \in Workers : pool.drv.th[w].pc = "idle"
    /\ pool' = [ pool EXCEPT !.api.closer = "returned" ]
    /\ cache' = clear_cache(cache)
    /\ UNCHANGED <<fn, cfg, settings, nextHandle, call, enr, bat, lnk, tc>>

\* the server is running: cleanup_resources has not been called
Serving == pool.api.closer = "idle" /\ pool.drv.cl.calls = 0

InitCleanup ==
    /\ Init
    /\ cfg.connector_available /\ cfg.token # NoToken

NextCleanup ==
    \/ \E t \in Coroutines : Serving /\ cfg.method = "api" /\ GetClientCall(t)
    \/ \E t \in Coroutines : cfg.method = "api" /\ RequestDone(t)
    \/ \E sql \in Statements \ {PyNone} : \E rows \in PartRows(sql, 0) :
          Serving /\ SetInCache(sql, rows)
    \/ \E w \in Workers : cfg.method = "connector" /\ CheckPool(w)
    \/ \E w \in Workers : ConstructPool(w)
    \/ \E w \in Workers : ReturnPool(w)
    \/ \E w \in Workers : GetConnection(w)
    \/ \E w \in Workers : WorkerDone(w)
    \/ ConnLost
    \/ CleanupCall
    \/ CleanupResume
    \/ CleanupReturn

SpecCleanup == InitCleanup /\ [][NextCleanup]_vars

\* C27: when cleanup_resources has returned, the HTTP client (if one was
\* created) is closed, the native pool holds no open connection and the
\* response cache is empty, after the first call and after every later one.
C27_CleanupReleasesEverything ==
    pool.api.closer = "returned" =>
        /\ pool.api.client # NoClient => pool.api.closed[pool.api.client]
        /\ pool.drv.connector_pool # NoInst =>
              ~IsOpen(pool.drv, pool.drv.held[pool.drv.connector_pool])
        /\ cache = {}

(***************************************************************************)
(* execute_snowflake_query over two SELECT statements, whose rows the      *)
(* backend tells apart (a row names its statement).                        *)
(***************************************************************************)
RowStatements == { <<"select", " ", "1">>, <<" ", "SELECT", " ", "2">> }

NextRows ==
    \/ \E c \in Calls, sql \in RowStatements, uc \in BOOLEAN : ExecStart(c, sql, NoToken, uc)
    \/ \E c \in Calls : PostFailed(c)
    \/ \E c \in Calls : PostData(c)
    \/ \E c \in Calls : PostResultSet(c)
    \/ \E c \in Calls : PartFailed(c)
    \/ \E c \in Calls : PartBody(c)
    \/ \E c \in Calls : ConnOk(c)
    \/ \E c \in Calls : ConnRaised(c)
    \/ \E c \in Calls : ExecReturn(c)
    \/ Expire

SpecRows == Init /\ [][NextRows]_vars

\* the rows the backend has delivered to call r
Delivered(r) ==
    UNION { { r.got[i].rows[j] : j \in 1..Len(r.got[i].rows) } : i \in 1..Len(r.got) }

\* C28: every row a call returns was delivered by the backend in a response
\* to the call's statement text: to this call (first payload or partition),
\* or to an earlier call whose rows were in the cache under that text.
C28_OnlyDeliveredRows ==
    /\ \A e \in cache : \A sql \in RowStatements :
          e.key \in { sql_query_key(sql), connector_key(sql) } => RowsBelongTo(e.rows, sql)
    /\ \A c \in Calls :
          LET r == call[c]
          IN r.pc = "done" =>
                /\ ~r.raised
                /\ RowsBelongTo(r.result, r.sql)
                /\ r.hadEntry => r.result = r.entryRows /\ r.got = <<>>
                /\ ~r.hadEntry => \A i \in 1..Len(r.result) : r.result[i] \in Delivered(r)

\* a call has returned the rows cached for its statement while the rows of
\* the other statement are in the cache as well
C28_Witness ==
    /\ \E e \in cache : e.rows # <<>> /\ e.rows[1][1] = "2"
    /\ \E c \in Calls :
          LET r == call[c]
          IN /\ r.pc = "done" /\ r.hadEntry /\ r.reqs = 0
             /\ r.sql = <<"select", " ", "1">>
             /\ r.result # <<>> /\ r.result[1][1] = "1"

(***************************************************************************)
(* One caller, and a backend that answers: every request sent gets its     *)
(* response, its failure or its timeout (the client is built with          *)
(* timeout=HTTP_TIMEOUT_SECONDS), so a response step that stays enabled is  *)
(* taken.                                                                  *)
(***************************************************************************)
BackendResponds ==
    \/ PostFailed("c1")
    \/ PostData("c1")
    \/ PostDataNull("c1")
    \/ PostResultSet("c1")
    \/ PostNoPayload("c1")
    \/ PartFailed("c1")
    \/ PartBody("c1")
    \/ ConnOk("c1")
    \/ ConnRaised("c1")

SpecLive == Init /\ [][NextAuth]_vars /\ WF_vars(BackendResponds)

Sent(r, method) == Cardinality({ i \in 1..Len(r.wire) : r.wire[i].method = method })

\* the statement was submitted at most once, and no partition was requested
\* twice: a partition is requested once before it is fetched or skipped
NoRetry(r) ==
    /\ r.reqs = Len(r.wire)
    /\ Sent(r, "POST") + Sent(r, "driver") <= 1
    /\ Sent(r, "GET") <= Cardinality(Resolved(r) \ {0}) + (IF r.pc = "part" THEN 1 ELSE 0)
    /\ Sent(r, "GET") <= IF r.nparts > 0 THEN r.nparts - 1 ELSE 0

\* C29: with a backend that answers every request (response, failure or
\* timeout), every execute call returns, and at no time has it submitted its
\* statement more than once or requested a partition more than once.
C29_ReturnsWithoutRetry ==
    /\ [](\A c \in Calls : NoRetry(call[c]))
    /\ \A c \in Calls : (call[c].pc \notin { "idle", "done" }) ~> (call[c].pc = "done")

\* a call has returned after two failed partition fetches, having sent one
\* request for the submission and one for each partition
C29_Witness ==
    \E c \in Calls :
        LET r == call[c]
        IN /\ r.pc = "done" /\ r.post = "data" /\ r.nparts = 3 /\ r.skipped = {1, 2}
           /\ Sent(r, "POST") = 1 /\ Sent(r, "GET") = 2

(***************************************************************************)
(* Rows to records.  A cell value is None (PyNone) or a string, kept as    *)
(* the sequence of its chunks ("" is <<>>); a record is the sequence of    *)
(* its <<key, value>> items in insertion order.  Numbers are read off the  *)
(* few numeric chunks of the model; a time is kept as whole days from      *)
(* 1970-01-01, seconds of the day and microseconds.                        *)
(***************************************************************************)
MaxCols == 2         \* most columns of a row

ColumnNames == { "ID", "CREATED", "created", "SUMMARY" }
CellValues == { PyNone, <<>>, <<"100.5", " ", "60">>, <<"100.5">>, <<"abc">>, <<"inf">> }
ColumnLists ==
    UNION { { cols \in [1..n -> ColumnNames] :
                \A i, j \in 1..n : cols[i] = cols[j] => i = j } : n \in 0..MaxCols }
RowValues == UNION { [1..n -> CellValues] : n \in 0..MaxCols }

timestamp_columns ==
    { "CREATED", "UPDATED", "DUEDATE", "RESOLUTIONDATE", "ARCHIVEDDATE", "_FIVETRAN_SYNCED" }
\* columns[i].upper()
ColumnUpper(name) == IF name = "created" THEN "CREATED" ELSE name

\* a value that is neither None nor a string
PyInt == <<"<int 123>">>
\* an OverflowError that leaves the function: no handler of the code names it
OverflowError == <<"<OverflowError>">>

\* 0001-01-01 and 9999-12-31, the first and last day of datetime, counted
\* from 1970-01-01
MinDay == -719162
MaxDay == 2932896
SecondsPerDay == 86400

\* a float read as a time: whole days, seconds of the day and microseconds,
\* or an infinity, a nan or a number of seconds beyond the platform's time_t
Finite(days, secs, micro) == [ kind |-> "finite", days |-> days, secs |-> secs, micro |-> micro ]
Seconds(sec, micro) == Finite(sec \div SecondsPerDay, sec % SecondsPerDay, micro)
NotFinite(kind) == [ kind |-> kind, days |-> 0, secs |-> 0, micro |-> 0 ]

\* float(s) succeeds on these chunks only
FloatTexts ==
    { "100.5", "60", "1440", "-60", "-0.5", "1753767533.658000000", "253402300799",
      "1e12", "inf", "nan", "99999999999999999999" }
IsFloat(s) == s \in FloatTexts
float_of(s) ==
    CASE s = "100.5" -> Seconds(100, 500000)
      [] s = "60" -> Seconds(60, 0)
      [] s = "1440" -> Seconds(1440, 0)
      [] s = "-60" -> Seconds(-60, 0)
      [] s = "-0.5" -> Seconds(-1, 500000)
      [] s = "1753767533.658000000" -> Seconds(1753767533, 658000)
      [] s = "253402300799" -> Finite(MaxDay, SecondsPerDay - 1, 0)
      [] s = "1e12" -> Finite(11574074, 6400, 0)
      [] s = "99999999999999999999" -> NotFinite("beyond time_t")
      [] s = "inf" -> NotFinite("inf")
      [] s = "nan" -> NotFinite("nan")

\* an int read as a count of minutes: whole days and minutes of the day, or
\* a count beyond a C int
MinutesPerDay == 1440
Minutes(n) == [ big |-> FALSE, days |-> n \div MinutesPerDay, mins |-> n % MinutesPerDay ]

\* int(s) succeeds on these chunks only
IntTexts == { "60", "1440", "-60", "253402300799", "99999999999999999999" }
IsInt(s) == s \in IntTexts
int_of(s) ==
    CASE s = "60" -> Minutes(60)
      [] s = "1440" -> Minutes(1440)
      [] s = "-60" -> Minutes(-60)
      [] s = "253402300799" -> [ big |-> FALSE, days |-> 175973819, mins |-> 1439 ]
      [] s = "99999999999999999999" -> [ big |-> TRUE, days |-> 0, mins |-> 0 ]

Raise(exc) == [ exc |-> exc, days |-> 0, secs |-> 0, micro |-> 0 ]
DateTime(days, secs, micro) == [ exc |-> "none", days |-> days, secs |-> secs, micro |-> micro ]

\* datetime.fromtimestamp(t, tz=timezone.utc): an infinity and 1e20 do not
\* fit the platform's time_t, a nan is no time, and a year beyond 9999 or before 1
\* is out of range
fromtimestamp(t) ==
    CASE t.kind \in { "inf", "beyond time_t" } -> Raise("OverflowError")
      [] t.kind = "nan" -> Raise("ValueError")
      [] OTHER -> IF t.days < MinDay \/ t.days > MaxDay
                  THEN Raise("ValueError")
                  ELSE DateTime(t.days, t.secs, t.micro)

\* the offset is read and dropped
add_minutes_unshifted(dt, m) ==
    IF m.big THEN Raise("OverflowError") ELSE dt
\* dt + timedelta(minutes=m): a minute count beyond a C int, and a sum out
\* of the range of datetime, are OverflowErrors
add_minutes(dt, m) ==
    IF m.big THEN Raise("OverflowError")
    ELSE LET total == dt.secs + 60 * m.mins
             days == dt.days + m.days + (total \div SecondsPerDay)
         IN IF days < MinDay \/ days > MaxDay
            THEN Raise("OverflowError")
            ELSE DateTime(days, total % SecondsPerDay, dt.micro)

\* the proleptic Gregorian date of a day counted from 1970-01-01
CivilFromDays(days) ==
    LET z == days + 719468
        era == z \div 146097
        doe == z - era * 146097
        yoe == (doe - (doe \div 1460) + (doe \div 36524) - (doe \div 146096)) \div 365
        doy == doe - (365 * yoe + (yoe \div 4) - (yoe \div 100))
        mp == (5 * doy + 2) \div 153
        d == doy - ((153 * mp + 2) \div 5) + 1
        m == IF mp < 10 THEN mp + 3 ELSE mp - 9
        y == yoe + era * 400 + (IF m <= 2 THEN 1 ELSE 0)
    IN [ year |-> y, month |-> m, day |-> d ]

Zeros == << "", "0", "00", "000", "0000", "00000" >>
\* "%0<width>d"
Pad(n, width) ==
    LET digits == ToString(n)
    IN IF Len(digits) >= width THEN digits ELSE Zeros[width - Len(digits) + 1] \o digits

\* dt.isoformat() of a datetime in UTC: the microseconds are written when
\* they are not zero
IsoFormat(dt) ==
    LET date == CivilFromDays(dt.days)
    IN << Pad(date.year, 4) \o "-" \o Pad(date.month, 2) \o "-" \o Pad(date.day, 2)
          \o "T" \o Pad(dt.secs \div 3600, 2) \o ":" \o Pad((dt.secs % 3600) \div 60, 2)
          \o ":" \o Pad(dt.secs % 60, 2)
          \o (IF dt.micro # 0 THEN "." \o Pad(dt.micro, 6) ELSE "")
          \o "+00:00" >>

\* timestamp_str.strip().split(), and the text float() reads after it has
\* stripped it: the chunks that are not whitespace
Split(s) == SelectSeq(s, LAMBDA ch : ch \notin Whitespace)

\* the value the try block returns, or the exception it raises
decode_timestamp(parts) ==
    IF Len(parts) >= 2
    THEN IF ~IsInt(parts[2]) \/ ~IsFloat(parts[1]) THEN Raise("ValueError")
         ELSE LET dt == fromtimestamp(float_of(parts[1]))
              IN IF dt.exc # "none" THEN dt ELSE add_minutes(dt, int_of(parts[2]))
    ELSE IF Len(parts) = 0 \/ ~IsFloat(parts[1]) THEN Raise("ValueError")
         ELSE fromtimestamp(float_of(parts[1]))

\* the handler of the try block catches every exception
parse_snowflake_timestamp_catches_all(timestamp_str) ==
    IF timestamp_str \in { PyNone, PyInt, <<>> } THEN timestamp_str
    ELSE LET dt == decode_timestamp(Split(timestamp_str))
         IN IF dt.exc = "none" THEN IsoFormat(dt) ELSE timestamp_str
parse_snowflake_timestamp(timestamp_str) ==
    IF timestamp_str \in { PyNone, PyInt, <<>> } THEN timestamp_str
    ELSE LET dt == decode_timestamp(Split(timestamp_str))
         IN CASE dt.exc = "none" -> IsoFormat(dt)
              [] dt.exc \in { "ValueError", "TypeError" } -> timestamp_str
              [] OTHER -> OverflowError

\* str(value)
Str(value) == IF value = PyNone THEN <<"None">> ELSE value
\* "and value": None and "" are falsy
Truthy(value) == value # PyNone /\ value # <<>>

\* the value stored for a column, parsed whatever the value is
format_value_parses_falsy(column, value) ==
    IF ColumnUpper(column) \in timestamp_columns
    THEN parse_snowflake_timestamp(Str(value))
    ELSE value
\* the value stored for a column by the loop body
format_value(column, value) ==
    IF ColumnUpper(column) \in timestamp_columns /\ Truthy(value)
    THEN parse_snowflake_timestamp(Str(value))
    ELSE value

\* result[key] = value
DictSet(m, key, value) ==
    IF \E i \in 1..Len(m) : m[i][1] = key
    THEN [ i \in 1..Len(m) |-> IF m[i][1] = key THEN <<key, value>> ELSE m[i] ]
    ELSE Append(m, <<key, value>>)

RECURSIVE format_columns(_, _, _, _)
format_columns(row_data, columns, i, result) ==
    IF i > Len(columns) THEN result
    ELSE LET value == format_value(columns[i], row_data[i])
         IN IF value = OverflowError THEN OverflowError
            ELSE format_columns(row_data, columns, i + 1, DictSet(result, columns[i], value))

format_snowflake_row(row_data, columns) ==
    IF Len(row_data) # Len(columns) THEN EmptyMap
    ELSE format_columns(row_data, columns, 1, EmptyMap)

FormatRow(row_data, columns) ==
    /\ fn' = [ name |-> "format_snowflake_row", args |-> <<row_data, columns>>,
               result |-> format_snowflake_row(row_data, columns) ]
    /\ UNCHANGED <<cfg, settings, cache, nextHandle, call, enr, bat, lnk, pool, tc>>

NextFormat == \E row_data \in RowValues, columns \in ColumnLists : FormatRow(row_data, columns)

SpecFormat == InitKey /\ [][NextFormat]_vars

\* the column names of the model that no spelling puts in the timestamp set
PlainColumns == { "ID", "SUMMARY" }

\* C30: format_snowflake_row(row, columns) returns, and it returns the empty
\* record when the lengths of row and columns differ; otherwise its keys are the given
\* column names as spelled, in order, and columns[i] is mapped to row[i]
\* itself for every column outside the timestamp-column set and for every
\* value that is None or empty.
C30_RowZippedWithColumns ==
    fn.name = "format_snowflake_row" =>
        LET row_data == fn.args[1]
            columns == fn.args[2]
            result == fn.result
        IN /\ result # OverflowError
           /\ Len(row_data) # Len(columns) => result = EmptyMap
           /\ Len(row_data) = Len(columns) =>
                 /\ Len(result) = Len(columns)
                 /\ \A i \in 1..Len(columns) :
                       /\ result[i][1] = columns[i]
                       /\ ( columns[i] \in PlainColumns
                            \/ row_data[i] = PyNone \/ row_data[i] = <<>> )
                          => result[i][2] = row_data[i]

\* a None under CREATED is kept, and a timestamp under "created" is decoded
\* and stored under that spelling
C30_Witness ==
    /\ fn.name = "format_snowflake_row"
    /\ fn.args = << << PyNone, <<"100.5", " ", "60">> >>, <<"CREATED", "created">> >>
    /\ fn.result = << <<"CREATED", PyNone>>,
                      <<"created", <<"1970-01-01T01:01:40.500000+00:00">> >> >>

(***************************************************************************)
(* The timestamp decoder applied to one value: None, a number, the empty   *)
(* string, blanks, or chunks of text separated by blanks.                  *)
(***************************************************************************)
TimestampTexts == FloatTexts \cup IntTexts \cup { "abc" }
TimestampInputs ==
    { PyNone, PyInt, <<>>, <<" ">>, <<" ", "60", " ">>, <<"100.5", " ", "60", " ", "abc">> }
        \cup { <<e>> : e \in TimestampTexts }
        \cup { <<e, " ", o>> : e \in TimestampTexts, o \in TimestampTexts }

ParseTimestamp(timestamp_str) ==
    /\ fn' = [ name |-> "parse_snowflake_timestamp", args |-> <<timestamp_str>>,
               result |-> parse_snowflake_timestamp(timestamp_str) ]
    /\ UNCHANGED <<cfg, settings, cache, nextHandle, call, enr, bat, lnk, pool, tc>>

NextTimestamp == \E timestamp_str \in TimestampInputs : ParseTimestamp(timestamp_str)

SpecTimestamp == InitKey /\ [][NextTimestamp]_vars

\* the input is "<epoch seconds>" or "<epoch seconds> <offset minutes>"
HasEpochForm(timestamp_str) ==
    /\ timestamp_str \notin { PyNone, PyInt }
    /\ Len(timestamp_str) \in { 1, 3 }
    /\ IsFloat(timestamp_str[1]) /\ float_of(timestamp_str[1]).kind = "finite"
    /\ Len(timestamp_str) = 3 =>
          /\ timestamp_str[2] = " "
          /\ IsInt(timestamp_str[3]) /\ ~int_of(timestamp_str[3]).big

OffsetMinutes(timestamp_str) ==
    IF Len(timestamp_str) = 3 THEN int_of(timestamp_str[3]) ELSE Minutes(0)

\* the instant epoch + 60 * offset seconds
ShiftedInstant(timestamp_str) ==
    LET epoch == float_of(timestamp_str[1])
        offset == OffsetMinutes(timestamp_str)
        seconds == epoch.secs + 60 * offset.mins
    IN Finite(epoch.days + offset.days + (seconds \div SecondsPerDay),
              seconds % SecondsPerDay, epoch.micro)

\* the instant falls in the years 1 to 9999
InYears(t) == t.days >= MinDay /\ t.days <= MaxDay

C32_NeverRaises ==
    fn.name = "parse_snowflake_timestamp" =>
        /\ fn.result # OverflowError
        /\ \/ fn.result = fn.args[1]
           \/ /\ fn.args[1] \notin { PyNone, PyInt, <<>> }
              /\ Split(fn.args[1]) # <<>> /\ IsFloat(Split(fn.args[1])[1])
              /\ Len(fn.result) = 1 /\ Len(fn.result[1]) >= 25

(***************************************************************************)
(* Quoting of a value for a SQL literal.  Here a string is the sequence    *)
(* of its characters.                                                      *)
(***************************************************************************)
MaxChars == 4        \* longest string sanitized

Quote == "'"
Characters == { Quote, "a", ";" }
SanitizeInputs == { PyNone } \cup UNION { [1..n -> Characters] : n \in 0..MaxChars }

\* value.replace("'", "")
RECURSIVE replace_quotes_dropped(_)
replace_quotes_dropped(value) ==
    IF value = <<>> THEN <<>>
    ELSE (IF Head(value) = Quote THEN <<>> ELSE <<Head(value)>>)
            \o replace_quotes_dropped(Tail(value))
\* value.replace("'", "''")
RECURSIVE replace_quotes(_)
replace_quotes(value) ==
    IF value = <<>> THEN <<>>
    ELSE (IF Head(value) = Quote THEN <<Quote, Quote>> ELSE <<Head(value)>>)
            \o replace_quotes(Tail(value))

sanitize_sql_value(value) ==
    IF ~IsStr(value) THEN Str(value) ELSE replace_quotes(value)

SanitizeValue(value) ==
    /\ fn' = [ name |-> "sanitize_sql_value", args |-> <<value>>,
               result |-> sanitize_sql_value(value) ]
    /\ UNCHANGED <<cfg, settings, cache, nextHandle, call, enr, bat, lnk, pool, tc>>

NextSanitize == \E value \in SanitizeInputs : SanitizeValue(value)

SpecSanitize == InitKey /\ [][NextSanitize]_vars

\* the single quotes among the first i characters of s
QuotesUpTo(s, i) == Cardinality({ j \in 1..i : s[j] = Quote })

\* C33: for every string s, sanitize_sql_value(s) holds the characters of s
\* in their order, each single quote followed by one more single quote and
\* nothing else added or changed; so it is s when s holds no single quote.
C33_QuotesDoubled ==
    fn.name = "sanitize_sql_value" /\ IsStr(fn.args[1]) =>
        LET s == fn.args[1]
            result == fn.result
        IN /\ Len(result) = Len(s) + QuotesUpTo(s, Len(s))
           /\ \A i \in 1..Len(s) :
                 /\ result[i + QuotesUpTo(s, i - 1)] = s[i]
                 /\ s[i] = Quote => result[i + QuotesUpTo(s, i - 1) + 1] = Quote
           /\ QuotesUpTo(s, Len(s)) = 0 => result = s

\* a string with two quotes and two other characters has been sanitized
C33_Witness ==
    /\ fn.name = "sanitize_sql_value"
    /\ fn.args = << <<"a", Quote, ";", Quote>> >>
    /\ fn.result = <<"a", Quote, Quote, ";", Quote, Quote>>

(***************************************************************************)
(* Calls that are to leave the cache alone.                                *)
(***************************************************************************)
\* the call was made with use_cache=False, or its statement does not start
\* with SELECT
Bypasses(r) ==
    r.pc # "idle" /\ (~r.use_cache \/ (IsStr(r.sql) /\ ~IsSelect(r.sql)))

\* every partition the call has resolved, it has requested from the backend
EveryPartitionRequested(r) ==
    Sent(r, "GET") = Cardinality(Resolved(r) \ {0}) + (IF r.pc = "part" THEN 1 ELSE 0)

\* C34: no step of an execute call made with use_cache=False, or for a
\* statement that does not start with SELECT, changes the cache, its
\* partition fetches included; and such a call takes no rows from the cache:
\* it has met no entry for its statement and has requested every partition
\* it has resolved.
C34_CacheUntouchedWithoutUseCache ==
    [][\A c \in Calls :
          Bypasses(call'[c]) /\ call'[c] # call[c] =>
              /\ cache' = cache
              /\ ~call'[c].hadEntry
              /\ EveryPartitionRequested(call'[c])]_vars

(***************************************************************************)
(* Two execute calls on the HTTP route with caching enabled, each with or  *)
(* without a token of its caller's; neither has been handed back yet, so   *)
(* the call that stored an entry is still on record when the other call    *)
(* meets the entry.                                                        *)
(***************************************************************************)
InitCred == Init /\ cfg.caching /\ cfg.method = "api"

NextCred ==
    \/ \E c \in Calls, sql \in Statements, tok \in Tokens, uc \in BOOLEAN :
          ExecStart(c, sql, tok, uc)
    \/ \E c \in Calls : PostFailed(c)
    \/ \E c \in Calls : PostData(c)
    \/ \E c \in Calls : PostDataNull(c)
    \/ \E c \in Calls : PostResultSet(c)
    \/ \E c \in Calls : PostNoPayload(c)
    \/ \E c \in Calls : PartFailed(c)
    \/ \E c \in Calls : PartBody(c)

SpecCred == InitCred /\ [][NextCred]_vars

\* C35: a call that was answered from the cache has a usable credential, and
\* it is the credential of the call that fetched and stored the entry.
C35_CacheRowsOnlyForOwnCredential ==
    \A c \in Calls :
        call[c].pc = "done" /\ call[c].hadEntry =>
            /\ EffectiveToken(call[c].tok) # NoToken
            /\ \A d \in Calls \ {c} :
                  call[d].stored /\ call[d].cache_key = call[c].cache_key
                  => EffectiveToken(call[d].tok) = EffectiveToken(call[c].tok)

(***************************************************************************)
(* Failures of the backend and the cache.                                  *)
(***************************************************************************)
\* the backend request of the call failed: the submission (non-2xx status,
\* network error, malformed JSON) or the query run by the native driver
BackendFailed(r) == r.post \in TransportFailures \cup { "connector_error" }

\* C36: the step in which an execute call returns after its backend request
\* has failed writes nothing to the cache, and neither does the step in
\* which an enrichment sub-query (labels, comments, links) returns after
\* the backend request of its statement has failed.
C36_FailureNotCached ==
    [][\A b \in BranchNames :
          /\ ( /\ call[b].pc \notin { "idle", "done" }
               /\ call'[b].pc = "done"
               /\ BackendFailed(call'[b]) )
             => cache' = cache /\ ~call'[b].stored
          /\ ( /\ enr.sub[b].pc = "query"
               /\ enr'.sub[b].pc = "done"
               /\ BackendFailed(call[b]) )
             => cache' = cache]_vars

(***************************************************************************)
(* cleanup_resources against the queries the worker threads still run.     *)
(***************************************************************************)
\* worker w is past get_connection() and runs its query on connection conn
ExecutingOn(d, w, conn) == d.th[w].pc = "got" /\ d.th[w].conn = conn

\* no step of cleanup_resources closes a connection a worker runs a query on
NoCloseUnderQuery ==
    [][pool'.drv.cl.calls > pool.drv.cl.calls =>
          LET conn == pool'.drv.cl.prev
          IN IsOpen(pool.drv, conn) => \A w \in Workers : ~ExecutingOn(pool.drv, w, conn)]_vars

\* when cleanup_resources has returned the native pool holds no open connection
NoConnectionLeftOpen ==
    pool.api.closer = "returned" /\ pool.drv.connector_pool # NoInst =>
        ~IsOpen(pool.drv, pool.drv.held[pool.drv.connector_pool])

\* C37: however cleanup_resources and the queries handed to the worker
\* threads before it interleave, the native pool holds no open connection
\* when cleanup_resources has returned, and cleanup_resources closes no
\* connection on which a worker is still running a query.
C37_CleanupWaitsForQueries == []NoConnectionLeftOpen /\ NoCloseUnderQuery

(***************************************************************************)
(* The maps the enrichment sub-queries build on the HTTP route from the    *)
(* rows execute_snowflake_query hands them, whatever those rows are: of    *)
(* the expected length or not, with or without an id, for a requested      *)
(* issue or another one.  A map is the sequence of its <<key, value>>      *)
(* associations in the order the code appends them.                        *)
(***************************************************************************)
MaxBackendRows == 2  \* most rows a sub-query's statement returns

SubQueries == { "get_issue_labels", "get_issue_comments", "get_issue_links" }

labels_columns == <<"ISSUE", "LABEL">>
comments_columns == <<"ID", "ISSUEID", "ROLELEVEL", "BODY", "CREATED", "UPDATED">>
links_columns ==
    <<"LINK_ID", "SOURCE", "DESTINATION", "SEQUENCE", "LINKNAME", "INWARD", "OUTWARD",
      "SOURCE_KEY", "DESTINATION_KEY", "SOURCE_SUMMARY", "DESTINATION_SUMMARY">>
ColumnsOf(query) ==
    CASE query = "get_issue_labels" -> labels_columns
      [] query = "get_issue_comments" -> comments_columns
      [] query = "get_issue_links" -> links_columns

IdCells == { <<"1">>, <<"2">>, PyNone }
CommentRow(issue) == << <<"c">>, issue, <<"r">>, <<"body">>, PyNone, PyNone >>
LinkRow(source, destination) ==
    << <<"l">>, source, destination, <<"0">>, <<"blocks">>, <<"in">>, <<"out">>,
       PyNone, PyNone, PyNone, PyNone >>
BackendRows(query) ==
    CASE query = "get_issue_labels" ->
            { <<issue, label>> : issue \in IdCells, label \in { <<"bug">>, PyNone } }
                \cup { << <<"1">> >> }
      [] query = "get_issue_comments" ->
            { CommentRow(issue) : issue \in IdCells } \cup { << <<"c">>, <<"1">> >> }
      [] query = "get_issue_links" ->
            { LinkRow(source, destination) : source \in IdCells, destination \in IdCells }
                \cup { << <<"l">>, <<"1">>, <<"2">> >> }
RowLists(query) == UNION { [1..n -> BackendRows(query)] : n \in 0..MaxBackendRows }
RequestedIds == { << <<"1">> >>, << <<"a">>, <<"1">> >>, << <<"a">> >> }

\* row_dict.get(key)
DictGet(row_dict, key) ==
    IF \E i \in 1..Len(row_dict) : row_dict[i][1] = key
    THEN row_dict[CHOOSE i \in 1..Len(row_dict) : row_dict[i][1] = key][2]
    ELSE PyNone

\* the body of "for issue_id in [source_id, destination_id]" for one issue_id
link_under(m, issue_id, source_id, sanitized_ids) ==
    IF InSeq(issue_id, sanitized_ids)
    THEN AddTo(m, issue_id, IF issue_id = source_id THEN "outward" ELSE "inward")
    ELSE m

\* the body of the row loop of a sub-query: the row as a record, then the
\* entry put under str(<id column>)
row_to_map(query, row, sanitized_ids, m) ==
    LET row_dict == format_snowflake_row(row, ColumnsOf(query))
    IN CASE query = "get_issue_labels" ->
               LET issue_id == Str(DictGet(row_dict, "ISSUE"))
                   label == DictGet(row_dict, "LABEL")
               IN IF Truthy(issue_id) /\ Truthy(label) THEN AddTo(m, issue_id, label) ELSE m
         [] query = "get_issue_comments" ->
               LET issue_id == Str(DictGet(row_dict, "ISSUEID"))
               IN IF Truthy(issue_id) THEN AddTo(m, issue_id, DictGet(row_dict, "ID")) ELSE m
         [] query = "get_issue_links" ->
               LET source_id == Str(DictGet(row_dict, "SOURCE"))
                   destination_id == Str(DictGet(row_dict, "DESTINATION"))
               IN link_under(link_under(m, source_id, source_id, sanitized_ids),
                             destination_id, source_id, sanitized_ids)

RECURSIVE rows_to_map(_, _, _, _)
rows_to_map(query, rows, sanitized_ids, m) ==
    IF rows = <<>> THEN m
    ELSE rows_to_map(query, Tail(rows), sanitized_ids,
                     row_to_map(query, Head(rows), sanitized_ids, m))

\* the sub-query called with use_cache=False, its statement answered with rows
SubQueryRows(query, issue_ids, rows) ==
    /\ fn' = [ name |-> query, args |-> <<issue_ids, rows>>,
               result |-> LET sanitized_ids == SelectSeq(issue_ids, IsNumericId)
                          IN IF sanitized_ids = <<>> THEN EmptyMap
                             ELSE rows_to_map(query, rows, sanitized_ids, EmptyMap) ]
    /\ UNCHANGED <<cfg, settings, cache, nextHandle, call, enr, bat, lnk, pool, tc>>

NextSubQueryRows ==
    \E query \in SubQueries, issue_ids \in RequestedIds :
        \E rows \in RowLists(query) : SubQueryRows(query, issue_ids, rows)

SpecSubQueryRows == InitKey /\ [][NextSubQueryRows]_vars

\* C38: every key of the map a sub-query (labels, comments, links) returns
\* is an id of the request that is a string of digits, whatever rows the
\* backend has returned.
C38_KeysAreRequestedIds ==
    fn.name \in SubQueries =>
        \A i \in 1..Len(fn.result) :
            \E j \in 1..Len(fn.args[1]) :
                IsNumericId(fn.args[1][j]) /\ fn.result[i][1] = fn.args[1][j]
====
